---------------------------- MODULE Spec2Model ----------------------------
(***************************************************************************)
(* Verification model of the device-provisioning toolkit (commandset/).    *)
(*                                                                         *)
(*   Part I   relay driver              reboot.py                          *)
(*   Part II  secure-debug unlock       SecureDebug_Serial_MCU.py,         *)
(*                                      mcu_util.py                        *)
(*   Part III UART bootstrap            uartboot.py                        *)
(*   Part IV  fastboot flasher          fastboot.py                        *)
(*                                                                         *)
(* Each part has its own specification over the shared variable list; a    *)
(* part's specification leaves the other parts' variables unchanged.       *)
(***************************************************************************)
EXTENDS Integers, Sequences, FiniteSets, TLC

VARIABLES
    \* ---- Part I: relay driver ----
    relay_type,     \* device.json relay_intf.type: "default" | "zqwl" | "corx"
    portState,      \* the relay hardware: port -> PORT_ON / PORT_OFF
    relay_lock,     \* redis key "carizon_relay": the owning worker, or "free"
    pc,             \* per worker: position inside execute()
    action,         \* per worker: execute()'s action argument
    port,           \* per worker: execute()'s port after `port or relay_port`
    answer,         \* per worker: the operator's answer at the prompt, "none" if not asked
    acquired,       \* per worker: what relay_lock.acquire() returned: "none","yes","no"
    ret,            \* per worker: value execute() is about to return
    result,         \* per worker: outcome of the call: "none","true","false","raised"
    wire,           \* per worker: wire commands issued by the current call
    unlocked,       \* per worker: the call issued a wire command without holding the lock
    seen,           \* per worker: states the requested port took during the call
    failed,         \* per worker: a transport failure hit the current call
    ncalls,         \* number of execute() calls begun so far
    \* ---- Part II: secure-debug unlock session ----
    impl,           \* which script runs: "sdbg" (SecureDebug_Serial_MCU.py) or "util" (mcu_util.py)
    key_ok,         \* the private-key file exists
    cert_len,       \* util: length of the certificate string read from certificate.crt
    upc,            \* position inside the session
    mcu_responsive, \* SerialConnect._mcu_responsive: "none", "true", "false"
    idx,            \* index of the next fragment to send
    attempts,       \* _get_random_interactive: inputs asked so far
    response,       \* the response text last kept in `result`
    random_value,   \* the nonce handed to the signing step, <<>> if none
    signed,         \* an ECDSA signature has been computed
    sent,           \* certificate and signature fragments written to the MCU port
    nackAt,         \* first certificate fragment whose response, when read, lacked the ACK
    sigResp,        \* response read after the last signature fragment
    exit_code,      \* the process exit status: "running", "0" or "1"
    \* ---- Part III: UART bootstrap ----
    boot,           \* the state of one Uartboot.boot() call, a record
    \* ---- Part IV: fastboot flasher ----
    fb,             \* the state of one Fastboot.upgrade() call, a record
    \* ---- Part II, the responsiveness probe on its own ----
    det             \* a SerialConnect object whose detect_mcu_responsiveness is called, a record

\* The relay hardware and its configuration.
hw == <<relay_type, portState>>

\* A call's arguments and the values it has obtained so far.
locals == <<action, port, answer, acquired, ret>>

\* What a call has put on the wire and observed.
trace == <<wire, unlocked, seen, failed>>

relayVars == <<hw, relay_lock, pc, locals, result, trace, ncalls>>

unlockVars == <<impl, key_ok, cert_len, upc, mcu_responsive, idx, attempts, response,
                random_value, signed, sent, nackAt, sigResp, exit_code>>

vars == <<relayVars, unlockVars, boot, fb, det>>

\* What the relay driver, the unlock session, the UART bootstrap and the
\* fastboot flasher, each, never touch.
notRelay == <<unlockVars, boot, fb, det>>

notUnlock == <<relayVars, boot, fb, det>>

notBoot == <<relayVars, unlockVars, fb, det>>

notFb == <<relayVars, unlockVars, boot, det>>

notDet == <<relayVars, unlockVars, boot, fb>>

-----------------------------------------------------------------------------
(***************************************************************************)
(* Part I.  Relay driver                                                   *)
(***************************************************************************)

\* Bound: total number of execute() calls in one behaviour.
MaxCalls == 2

\* BaseRelay class constants.
MAX_PORT_NUM == 16
PORT_ON == 0
PORT_OFF == 1

\* CI workers sharing the relay hardware; each has its own device.json.
Workers == {"w1", "w2"}

\* device_config["power_port"] of each worker's board.
relay_port(w) == IF w = "w1" THEN 1 ELSE 2

RelayTypes == {"default", "zqwl", "corx"}

\* Values of the action argument: the three methods and one the classes lack.
Actions == {"on", "off", "reboot", "status"}

\* Values of the port argument; 0 stands for None (both are falsy).
PortArgs == {-1, 0, 2, 17}

Ports == 1..MAX_PORT_NUM

\* hasattr(self, f"_port_{action}")
HasMethod(a) == a \in {"on", "off", "reboot"}

\* Answers at the confirmation prompt, after strip().lower(); "^C" is
\* KeyboardInterrupt.
Answers == {"y", "n", "x", "^C"}

\* Index into the 16-entry status list built by __port_ctrl, as Python
\* evaluates list[port - 1] (a negative index counts from the end); the
\* result is the port whose bit is read.
StatusPort(p) == IF p - 1 >= 0 THEN p ELSE MAX_PORT_NUM + p

\* The HTTP relay handles UWHEXVAL=<port> the same way for on and off: the
\* request flips the addressed port. A port the relay does not have is ignored.
HttpSwitch(ps, p) ==
    IF p \in Ports THEN [ps EXCEPT ![p] = IF @ = PORT_ON THEN PORT_OFF ELSE PORT_ON]
    ELSE ps

\* A write that sets a port to a given state (Modbus coil write).
CoilWrite(ps, p, s) == IF p \in Ports THEN [ps EXCEPT ![p] = s] ELSE ps

\* The worker holds the redis key.
HoldsLock(w) == relay_lock = w

\* A wire command leaves the process: it is logged, and it is noted whether
\* the process held the lock at that moment.
Issue(w, kind) ==
    /\ wire' = [wire EXCEPT ![w] = Append(@, [kind |-> kind, port |-> port[w]])]
    /\ unlocked' = [unlocked EXCEPT ![w] = @ \/ ~HoldsLock(w)]

\* Record the state the requested port has after a step.
Observe(w, ps) ==
    seen' = [seen EXCEPT ![w] =
               IF port[w] \in Ports /\ (@ = <<>> \/ @[Len(@)] # ps[port[w]])
               THEN Append(@, ps[port[w]]) ELSE @]

\* execute() returns r (or raises) without passing through the finally block.
Finish(w, r) ==
    /\ result' = [result EXCEPT ![w] = r]
    /\ pc' = [pc EXCEPT ![w] = "done"]

\* First step of _port_<action> on each backend.
MethodEntry(t, a) ==
    CASE t = "default" -> IF a = "on" THEN "d_ctrl_on" ELSE "d_ctrl_off"
      [] t = "zqwl"    -> IF a = "on" THEN "z_rd_on" ELSE "z_rd_off"
      [] OTHER         -> IF a = "on" THEN "c_on" ELSE "c_off"

\* Whether execute() asks the operator before touching another board's port:
\* Relay_default.execute does, BaseRelay.execute (zqwl, corx) has no prompt.
NeedsConfirm(t, w, p) == t = "default" /\ p # relay_port(w)

\* Whether execute() takes the redis lock around the method: only
\* Relay_default creates one.
UsesLock(t) == t = "default"

\* execute(action, port): the argument checks, up to the prompt.
Execute(w, a, parg) ==
    LET p == IF parg = 0 THEN relay_port(w) ELSE parg IN
    /\ pc[w] = "idle"
    /\ ncalls < MaxCalls
    /\ ncalls' = ncalls + 1
    /\ action' = [action EXCEPT ![w] = a]
    /\ port' = [port EXCEPT ![w] = p]
    /\ seen' = [seen EXCEPT ![w] = IF p \in Ports THEN <<portState[p]>> ELSE <<>>]
    /\ IF p > MAX_PORT_NUM \/ ~HasMethod(a)
       THEN Finish(w, "false")
       ELSE /\ result' = [result EXCEPT ![w] = "none"]
            /\ pc' = [pc EXCEPT ![w] =
                        IF NeedsConfirm(relay_type, w, p) THEN "confirm"
                        ELSE IF UsesLock(relay_type) THEN "acquire"
                        ELSE MethodEntry(relay_type, a)]
    /\ UNCHANGED <<hw, relay_lock, answer, acquired, ret, wire, unlocked, failed>>
    /\ UNCHANGED notRelay

\* Relay_default.execute: the y/n prompt for a port that is not the board's own.
Confirm(w, ans) ==
    /\ pc[w] = "confirm"
    /\ answer' = [answer EXCEPT ![w] = ans]
    /\ IF ans = "y"
       THEN /\ pc' = [pc EXCEPT ![w] = "acquire"]
            /\ UNCHANGED result
       ELSE Finish(w, "false")
    /\ UNCHANGED <<hw, relay_lock, action, port, acquired, ret, trace, ncalls>>
    /\ UNCHANGED notRelay

\* relay_lock.acquire() returns True: the key was free and is now ours.
Acquire(w) ==
    /\ pc[w] = "acquire"
    /\ relay_lock = "free"
    /\ relay_lock' = w
    /\ acquired' = [acquired EXCEPT ![w] = "yes"]
    /\ pc' = [pc EXCEPT ![w] = "d_status"]
    /\ UNCHANGED <<hw, action, port, answer, ret, result, trace, ncalls>>
    /\ UNCHANGED notRelay

\* AcquireTimeout as it would be if execute() did not test what acquire()
\* returned and entered the try block regardless.
AcquireTimeout_Unchecked(w) ==
    /\ pc[w] = "acquire"
    /\ relay_lock # "free"
    /\ acquired' = [acquired EXCEPT ![w] = "no"]
    /\ pc' = [pc EXCEPT ![w] = "d_status"]
    /\ UNCHANGED <<hw, relay_lock, action, port, answer, ret, result, trace, ncalls>>
    /\ UNCHANGED notRelay

\* relay_lock.acquire() returns False: the key stayed taken for blocking_timeout.
\* execute() logs the failure and returns False.
AcquireTimeout(w) ==
    /\ pc[w] = "acquire"
    /\ relay_lock # "free"
    /\ acquired' = [acquired EXCEPT ![w] = "no"]
    /\ Finish(w, "false")
    /\ UNCHANGED <<hw, relay_lock, action, port, answer, ret, trace, ncalls>>
    /\ UNCHANGED notRelay

\* The key's TTL (timeout = REBOOT_INTERVAL + 3.5 s) runs out while its owner is
\* still inside execute(): requests.get has no timeout of its own.
LockExpire ==
    /\ relay_lock # "free"
    /\ relay_lock' = "free"
    /\ UNCHANGED <<hw, pc, locals, result, trace, ncalls>>
    /\ UNCHANGED notRelay

\* Release as it would be if the return left the key in place.
Release_Leak(w) ==
    /\ pc[w] = "release"
    /\ UNCHANGED relay_lock
    /\ Finish(w, IF HoldsLock(w) THEN ret[w] ELSE "raised")
    /\ UNCHANGED <<hw, locals, trace, ncalls>>
    /\ UNCHANGED notRelay

\* finally: relay_lock.release(). Releasing a key that is no longer ours raises
\* LockNotOwnedError, which replaces the pending return value.
Release(w) ==
    /\ pc[w] = "release"
    /\ IF HoldsLock(w)
       THEN /\ relay_lock' = "free"
            /\ Finish(w, ret[w])
       ELSE /\ UNCHANGED relay_lock
            /\ Finish(w, "raised")
    /\ UNCHANGED <<hw, locals, trace, ncalls>>
    /\ UNCHANGED notRelay

\* Leave the try block with value r: the finally block runs next.
ToRelease(w, r) ==
    /\ ret' = [ret EXCEPT ![w] = r]
    /\ pc' = [pc EXCEPT ![w] = "release"]
    /\ UNCHANGED result

Bool(b) == IF b THEN "true" ELSE "false"

\* Relay_default.execute: the status query under the lock and the early return
\* when the port already reports the wanted state. A failed request makes
\* __port_ctrl return None, and indexing None raises.
DefaultStatus(w, ok) ==
    /\ pc[w] = "d_status"
    /\ Issue(w, "query")
    /\ IF ~ok
       THEN /\ failed' = [failed EXCEPT ![w] = TRUE]
            /\ ToRelease(w, "raised")
       ELSE /\ UNCHANGED failed
            /\ LET st == portState[StatusPort(port[w])] IN
               IF \/ st = PORT_ON /\ action[w] = "on"
                  \/ st = PORT_OFF /\ action[w] = "off"
               THEN ToRelease(w, "true")
               ELSE /\ pc' = [pc EXCEPT ![w] = MethodEntry("default", action[w])]
                    /\ UNCHANGED <<ret, result>>
    /\ UNCHANGED <<hw, relay_lock, action, port, answer, acquired, seen, ncalls>>
    /\ UNCHANGED notRelay

\* Relay_default._port_on/_port_off, first line: self.__port_ctrl(port). A failed
\* request returns None, which the caller ignores.
DefaultCtrl(w, ok) ==
    /\ pc[w] \in {"d_ctrl_on", "d_ctrl_off"}
    /\ Issue(w, "switch")
    /\ portState' = IF ok THEN HttpSwitch(portState, port[w]) ELSE portState
    /\ Observe(w, portState')
    /\ failed' = [failed EXCEPT ![w] = @ \/ ~ok]
    /\ pc' = [pc EXCEPT ![w] = IF @ = "d_ctrl_on" THEN "d_chk_on" ELSE "d_chk_off"]
    /\ UNCHANGED <<relay_type, relay_lock, locals, result, ncalls>>
    /\ UNCHANGED notRelay

\* Relay_default._port_on/_port_off, second line: compare the reported status.
\* In _port_reboot a False from _port_off ends the `and` chain.
DefaultCheck(w, ok) ==
    /\ pc[w] \in {"d_chk_on", "d_chk_off"}
    /\ Issue(w, "query")
    /\ IF ~ok
       THEN /\ failed' = [failed EXCEPT ![w] = TRUE]
            /\ ToRelease(w, "raised")
       ELSE /\ UNCHANGED failed
            /\ LET st == portState[StatusPort(port[w])]
                   r  == IF pc[w] = "d_chk_on" THEN st = PORT_ON ELSE st = PORT_OFF
               IN IF pc[w] = "d_chk_off" /\ action[w] = "reboot" /\ r
                  THEN /\ pc' = [pc EXCEPT ![w] = "sleep"]
                       /\ UNCHANGED <<ret, result>>
                  ELSE ToRelease(w, Bool(r))
    /\ UNCHANGED <<hw, relay_lock, action, port, answer, acquired, seen, ncalls>>
    /\ UNCHANGED notRelay

\* _port_reboot: time.sleep(REBOOT_INTERVAL) between off and on.
Sleep(w) ==
    /\ pc[w] = "sleep"
    /\ pc' = [pc EXCEPT ![w] = MethodEntry(relay_type, "on")]
    /\ UNCHANGED <<hw, relay_lock, locals, result, trace, ncalls>>
    /\ UNCHANGED notRelay

\* What follows a finished _port_off / _port_on with value r on the backends
\* that run under BaseRelay.execute: _port_reboot goes on to sleep after a
\* successful off, anything else is the return value.
AfterMethod(w, wasOff, r) ==
    IF wasOff /\ action[w] = "reboot" /\ r
    THEN /\ pc' = [pc EXCEPT ![w] = "sleep"]
         /\ UNCHANGED result
    ELSE Finish(w, Bool(r))

\* A Modbus request can be built for the coil address port - 1 only when the
\* address is not negative (the address is packed as an unsigned 16-bit field,
\* Relay_corx formats it with :04X and parses it back with bytes.fromhex).
CoilAddrOk(p) == p - 1 >= 0

\* Relay_zqwl._port_on/_port_off: read the coil at address port - 1; a port that
\* already has the wanted state returns True without a write. A failed read
\* has no .bits and raises.
ZqwlRead(w, ok) ==
    /\ pc[w] \in {"z_rd_on", "z_rd_off"}
    /\ LET off  == pc[w] = "z_rd_off"
           want == IF off THEN PORT_OFF ELSE PORT_ON
       IN IF ~CoilAddrOk(port[w])
          THEN /\ Finish(w, "raised")
               /\ UNCHANGED <<wire, unlocked, failed>>
          ELSE /\ Issue(w, "query")
               /\ IF ~ok
                  THEN /\ failed' = [failed EXCEPT ![w] = TRUE]
                       /\ Finish(w, "raised")
                  ELSE /\ UNCHANGED failed
                       /\ IF portState[port[w]] = want
                          THEN AfterMethod(w, off, TRUE)
                          ELSE /\ pc' = [pc EXCEPT ![w] =
                                           IF off THEN "z_wr_off" ELSE "z_wr_on"]
                               /\ UNCHANGED result
    /\ UNCHANGED <<hw, relay_lock, locals, seen, ncalls>>
    /\ UNCHANGED notRelay

\* Relay_zqwl: write_coil(address, value); value False is ON, True is OFF. The
\* method returns isError() == False.
ZqwlWrite(w, ok) ==
    /\ pc[w] \in {"z_wr_on", "z_wr_off"}
    /\ Issue(w, "switch")
    /\ LET off == pc[w] = "z_wr_off" IN
       /\ portState' = IF ok
                       THEN CoilWrite(portState, port[w], IF off THEN PORT_OFF ELSE PORT_ON)
                       ELSE portState
       /\ AfterMethod(w, off, ok)
    /\ Observe(w, portState')
    /\ failed' = [failed EXCEPT ![w] = @ \/ ~ok]
    /\ UNCHANGED <<relay_type, relay_lock, locals, ncalls>>
    /\ UNCHANGED notRelay

\* Relay_corx._port_on/_port_off -> _send_modbus_command: always send the
\* frame; True unless the socket raised.
CorxSend(w, ok) ==
    /\ pc[w] \in {"c_on", "c_off"}
    /\ LET off == pc[w] = "c_off" IN
       IF ~CoilAddrOk(port[w])
       THEN /\ Finish(w, "raised")
            /\ UNCHANGED <<portState, trace>>
       ELSE /\ Issue(w, "switch")
            /\ portState' = IF ok
                            THEN CoilWrite(portState, port[w],
                                           IF off THEN PORT_OFF ELSE PORT_ON)
                            ELSE portState
            /\ Observe(w, portState')
            /\ failed' = [failed EXCEPT ![w] = @ \/ ~ok]
            /\ AfterMethod(w, off, ok)
    /\ UNCHANGED <<relay_type, relay_lock, locals, ncalls>>
    /\ UNCHANGED notRelay

\* execute() has returned (or raised) to its caller; the call's locals are gone.
Return(w) ==
    /\ pc[w] = "done"
    /\ pc' = [pc EXCEPT ![w] = "idle"]
    /\ action' = [action EXCEPT ![w] = "on"]
    /\ port' = [port EXCEPT ![w] = relay_port(w)]
    /\ answer' = [answer EXCEPT ![w] = "none"]
    /\ acquired' = [acquired EXCEPT ![w] = "none"]
    /\ ret' = [ret EXCEPT ![w] = "none"]
    /\ result' = [result EXCEPT ![w] = "none"]
    /\ wire' = [wire EXCEPT ![w] = <<>>]
    /\ unlocked' = [unlocked EXCEPT ![w] = FALSE]
    /\ seen' = [seen EXCEPT ![w] = <<>>]
    /\ failed' = [failed EXCEPT ![w] = FALSE]
    /\ UNCHANGED <<hw, relay_lock, ncalls>>
    /\ UNCHANGED notRelay

\* main(): prints whether execute() succeeded and returns, so the process
\* ends with status 0; an exception that nothing catches ends it with 1.
RebootExit(r) == IF r = "raised" THEN 1 ELSE 0

\* No unlock session is running.
UnlockIdle ==
    /\ impl = "sdbg"
    /\ key_ok = TRUE
    /\ cert_len = 0
    /\ upc = "exit"
    /\ mcu_responsive = "none"
    /\ idx = 1
    /\ attempts = 0
    /\ response = <<>>
    /\ random_value = <<>>
    /\ signed = FALSE
    /\ sent = <<>>
    /\ nackAt = 0
    /\ sigResp = <<>>
    /\ exit_code = "running"

RelayInit ==
    /\ relay_type \in RelayTypes
    /\ portState \in {ps \in [Ports -> {PORT_ON, PORT_OFF}] :
                        \A p \in Ports \ {1, 2} : ps[p] = PORT_ON}
    /\ relay_lock = "free"
    /\ pc = [w \in Workers |-> "idle"]
    /\ action = [w \in Workers |-> "on"]
    /\ port = [w \in Workers |-> relay_port(w)]
    /\ answer = [w \in Workers |-> "none"]
    /\ acquired = [w \in Workers |-> "none"]
    /\ ret = [w \in Workers |-> "none"]
    /\ result = [w \in Workers |-> "none"]
    /\ wire = [w \in Workers |-> <<>>]
    /\ unlocked = [w \in Workers |-> FALSE]
    /\ seen = [w \in Workers |-> <<>>]
    /\ failed = [w \in Workers |-> FALSE]
    /\ ncalls = 0
    /\ UnlockIdle
    /\ boot = [pc |-> "done"]
    /\ fb = [pc |-> "done"]
    /\ det = [pc |-> "done"]

RelayNext ==
    \/ \E w \in Workers, a \in Actions, p \in PortArgs : Execute(w, a, p)
    \/ \E w \in Workers, ans \in Answers : Confirm(w, ans)
    \/ \E w \in Workers : Acquire(w)
    \/ \E w \in Workers : AcquireTimeout(w)
    \/ LockExpire
    \/ \E w \in Workers : Release(w)
    \/ \E w \in Workers, ok \in BOOLEAN : DefaultStatus(w, ok)
    \/ \E w \in Workers, ok \in BOOLEAN : DefaultCtrl(w, ok)
    \/ \E w \in Workers, ok \in BOOLEAN : DefaultCheck(w, ok)
    \/ \E w \in Workers : Sleep(w)
    \/ \E w \in Workers, ok \in BOOLEAN : ZqwlRead(w, ok)
    \/ \E w \in Workers, ok \in BOOLEAN : ZqwlWrite(w, ok)
    \/ \E w \in Workers, ok \in BOOLEAN : CorxSend(w, ok)
    \/ \E w \in Workers : Return(w)


-----------------------------------------------------------------------------
(***************************************************************************)
(* Part II.  Secure-debug unlock session                                   *)
(*                                                                         *)
(* A text is a sequence of tokens [cls, n]: a run of n characters of one   *)
(* class ("H" digit or upper-case hex letter, "h" lower-case hex letter,   *)
(* "w" white space, "x" any other character), or one of the marker strings *)
(* the scripts look for.                                                   *)
(***************************************************************************)

\* Bound: the longest certificate string mcu_util is given.
MaxCertLen == 121

\* Program constants.
CERT_CHUNK == 60
SIG_CHUNK == 50
NONCE_LEN == 64
SIG_HEX_LEN == 128
CERT_TOTAL == 1232
CERT_FRAGMENTS == 21
LAST_CERT_LEN == 32
LAST_SIG_LEN == 28
SIG_FRAGMENTS == 3
INPUT_ATTEMPTS == 3

Run(c, k) == [cls |-> c, n |-> k]

Lit(name) == [cls |-> name, n |-> 1]

\* "Successfully received data", "Rondom numbers are:", "Signature Verify Ok",
\* "Debug mode ON!"
Markers == {"ACK", "MARK", "SIGOK", "DBGON"}

\* The characters of each marker string, by class.
MarkerRuns(name) ==
    CASE name = "ACK" ->
           <<Run("x", 2), Run("h", 3), Run("x", 2), Run("h", 1), Run("x", 4),
             Run("w", 1), Run("x", 1), Run("h", 3), Run("x", 2), Run("h", 2),
             Run("w", 1), Run("h", 2), Run("x", 1), Run("h", 1)>>
      [] name = "MARK" ->
           <<Run("x", 3), Run("h", 1), Run("x", 2), Run("w", 1), Run("x", 3),
             Run("h", 2), Run("x", 2), Run("w", 1), Run("h", 1), Run("x", 1),
             Run("h", 1), Run("x", 1)>>
      [] name = "SIGOK" ->
           <<Run("x", 4), Run("h", 1), Run("x", 3), Run("h", 1), Run("w", 1),
             Run("x", 1), Run("h", 1), Run("x", 2), Run("h", 1), Run("x", 1),
             Run("w", 1), Run("x", 2)>>
      [] OTHER ->
           <<Run("H", 1), Run("h", 2), Run("x", 2), Run("w", 1), Run("x", 2),
             Run("h", 2), Run("w", 1), Run("x", 3)>>

\* _send_command returned None (an exception was caught).
NoneText == <<[cls |-> "None", n |-> 0]>>

\* No response was read.
Unread == <<[cls |-> "unread", n |-> 0]>>

IsHex(c) == c \in {"H", "h"}

RECURSIVE Expand(_)
\* A text as character runs only: marker strings spelled out.
Expand(text) ==
    IF text = <<>> THEN <<>>
    ELSE (IF Head(text).cls \in Markers THEN MarkerRuns(Head(text).cls)
          ELSE <<Head(text)>>) \o Expand(Tail(text))

RECURSIVE Chars(_)
\* len(): number of characters of a run sequence.
Chars(rs) == IF rs = <<>> THEN 0 ELSE Head(rs).n + Chars(Tail(rs))

RECURSIVE Take(_, _)
\* s[:k]
Take(rs, k) ==
    IF k = 0 \/ rs = <<>> THEN <<>>
    ELSE IF Head(rs).n <= k THEN <<Head(rs)>> \o Take(Tail(rs), k - Head(rs).n)
    ELSE <<Run(Head(rs).cls, k)>>

RECURSIVE Norm(_)
\* The same string with adjacent runs of one class written as one run.
Norm(rs) ==
    IF Len(rs) <= 1 THEN rs
    ELSE IF rs[1].cls = rs[2].cls
         THEN Norm(<<Run(rs[1].cls, rs[1].n + rs[2].n)>> \o SubSeq(rs, 3, Len(rs)))
         ELSE <<rs[1]>> \o Norm(Tail(rs))

\* `marker in text`
Contains(text, name) == \E i \in 1..Len(text) : text[i].cls = name

\* text.split(marker)[-1]: what follows the last occurrence, the whole text if
\* there is none.
AfterLast(text, name) ==
    LET I == {i \in 1..Len(text) : text[i].cls = name} IN
    IF I = {} THEN text
    ELSE SubSeq(text, (CHOOSE i \in I : \A j \in I : j <= i) + 1, Len(text))

\* `response and response.strip()`: the text has a character that is not white space.
NonBlank(text) ==
    /\ text # NoneText
    /\ \E i \in 1..Len(text) : text[i].cls # "w"

RECURSIVE Search64(_, _)
\* re.search(r'([0-9A-Fa-f]{64})', s): the first 64 characters of the first
\* stretch of at least 64 consecutive hex characters; <<>> if there is none.
Search64(rs, acc) ==
    IF Chars(acc) >= NONCE_LEN THEN Take(acc, NONCE_LEN)
    ELSE IF rs = <<>> THEN <<>>
    ELSE IF IsHex(Head(rs).cls) THEN Search64(Tail(rs), Append(acc, Head(rs)))
    ELSE Search64(Tail(rs), <<>>)

\* re.sub(r'[^0-9A-Fa-f]', '', s)
Cleaned(rs) == SelectSeq(rs, LAMBDA r : IsHex(r.cls))

\* SerialConnect._extract_random_number; <<>> stands for None.
ExtractRandomNumber(text) ==
    IF text = NoneText \/ text = <<>> \/ ~Contains(text, "MARK") THEN <<>>
    ELSE LET random_part == Expand(AfterLast(text, "MARK"))
             match == Search64(random_part, <<>>)
             cleaned == Cleaned(random_part)
         IN IF match # <<>> THEN Norm(match)
            ELSE IF Chars(cleaned) >= NONCE_LEN THEN Norm(Take(cleaned, NONCE_LEN))
            ELSE <<>>

\* str.upper() of a hex string.
Upper(rs) == Norm([i \in 1..Len(rs) |-> IF rs[i].cls = "h" THEN Run("H", rs[i].n) ELSE rs[i]])

\* _get_random_interactive: len(user_input) == 64 and every character is hex.
ValidInput(rs) == Chars(rs) = NONCE_LEN /\ \A i \in 1..Len(rs) : IsHex(rs[i].cls)

RECURSIVE FromHexOk(_, _)
\* bytes.fromhex accepts the string: white space may separate bytes, every
\* byte is two hex digits, nothing else occurs.
FromHexOk(rs, odd) ==
    IF rs = <<>> THEN ~odd
    ELSE IF IsHex(Head(rs).cls) THEN FromHexOk(Tail(rs), odd # (Head(rs).n % 2 = 1))
    ELSE IF Head(rs).cls = "w" THEN ~odd /\ FromHexOk(Tail(rs), FALSE)
    ELSE FALSE

\* What the MCU may answer to a command.
Responses ==
    LET W == Run("w", 2)
        N64 == Run("H", NONCE_LEN)
    IN { <<>>,
         <<Run("x", 4), W>>,
         <<Lit("ACK"), W>>,
         <<Lit("ACK"), W, Lit("MARK"), N64, W>>,
         <<Lit("MARK"), N64, W>>,
         <<Lit("ACK"), W, Lit("MARK"), Run("h", NONCE_LEN), W>>,
         <<Lit("ACK"), W, Lit("MARK"), Run("H", 32), W>>,
         <<Lit("ACK"), W, Lit("MARK"), Run("H", 32), W, Run("H", 32), W>>,
         <<Lit("ACK"), W, Lit("MARK"), N64, W, Run("x", 4)>>,
         <<Lit("ACK"), W, Lit("SIGOK"), W>>,
         <<Lit("ACK"), W, Lit("DBGON"), W>>,
         <<Lit("ACK"), W, Lit("SIGOK"), W, Lit("DBGON"), W>>,
         <<Lit("SIGOK"), W, Lit("DBGON"), W>> }

\* What SerialConnect._send_command may return.
SdbgResponses == Responses \cup {NoneText}

\* What the operator may type at the nonce prompt; "^C" is KeyboardInterrupt.
NonceInputs ==
    { <<Run("H", NONCE_LEN)>>, <<Run("h", NONCE_LEN)>>, <<Run("H", NONCE_LEN - 1)>>,
      <<Run("H", 32), Run("x", 1), Run("H", 31)>> }

\* ceil(total / size) chunks of `size` characters, the last one shorter.
NChunks(total, size) == (total + size - 1) \div size

\* ChunkLen as it would be if every chunk, the last one too, were `size` long.
ChunkLen_Whole(total, size, i) == size

ChunkLen(total, size, i) == IF i * size <= total THEN size ELSE total - (i - 1) * size

\* SerialConnect._get_certificate_fragments: the built-in table.
CertFragment(i) ==
    [cmd |-> "cert", total |-> CERT_TOTAL, index |-> i,
     last |-> IF i = CERT_FRAGMENTS THEN 1 ELSE 0,
     len |-> IF i = CERT_FRAGMENTS THEN LAST_CERT_LEN ELSE CERT_CHUNK,
     payload |-> IF i = CERT_FRAGMENTS THEN LAST_CERT_LEN ELSE CERT_CHUNK]

\* Shell_SentSignatureCmd: three fragments with the header fields written out
\* and the payload sliced from the signature's hex string.
SigFragment(i) ==
    [cmd |-> "sig", total |-> SIG_HEX_LEN, index |-> i,
     last |-> IF i = SIG_FRAGMENTS THEN 1 ELSE 0,
     len |-> IF i = SIG_FRAGMENTS THEN LAST_SIG_LEN ELSE SIG_CHUNK,
     payload |-> ChunkLen(SIG_HEX_LEN, SIG_CHUNK, i)]

\* UnlockMCU.__call__: fragment idx + 1 of a string of `total` characters cut
\* into chunks of `size`.
UtilFragment(c, total, size, i) ==
    [cmd |-> c, total |-> total, index |-> i,
     last |-> IF i = NChunks(total, size) THEN 1 ELSE 0,
     len |-> ChunkLen(total, size, i),
     payload |-> ChunkLen(total, size, i)]

cfg == <<impl, key_ok, cert_len>>

\* sys.exit(code) / exit(code), or an uncaught exception (status 1).
Exit(code) ==
    /\ upc' = "exit"
    /\ exit_code' = code

\* The first reading of a certificate fragment's response that lacks the ACK.
NoteAck(r, i) == nackAt' = IF nackAt = 0 /\ ~Contains(r, "ACK") THEN i ELSE nackAt

\* SecureDebug main(): the private-key file is checked before the port is opened.
SdbgStart ==
    /\ impl = "sdbg" /\ upc = "start"
    /\ IF key_ok THEN upc' = "ver1" /\ UNCHANGED exit_code ELSE Exit("1")
    /\ UNCHANGED <<cfg, mcu_responsive, idx, attempts, response, random_value,
                   signed, sent, nackAt, sigResp>>
    /\ UNCHANGED notUnlock

\* mcu_write("mcu_version_show"): in main() before the certificate, at the top
\* of Shell_SentCertCmd, and as the final check after which main() ends.
McuVersionShow(r) ==
    /\ upc \in {"ver1", "ver2", "final"}
    /\ IF upc = "final" THEN Exit("0")
       ELSE /\ upc' = IF upc = "ver1" THEN "ver2" ELSE "probe_help"
            /\ UNCHANGED exit_code
    /\ UNCHANGED <<cfg, mcu_responsive, idx, attempts, response, random_value,
                   signed, sent, nackAt, sigResp>>
    /\ UNCHANGED notUnlock

\* detect_mcu_responsiveness: probe with "help", then with "", until one
\* response is not blank; the verdict is cached.
DetectMcuResponsiveness(r) ==
    /\ upc \in {"probe_help", "probe_empty"}
    /\ mcu_responsive = "none"
    /\ IF NonBlank(r)
       THEN mcu_responsive' = "true" /\ upc' = "cert"
       ELSE IF upc = "probe_help"
            THEN upc' = "probe_empty" /\ UNCHANGED mcu_responsive
            ELSE mcu_responsive' = "false" /\ upc' = "cert"
    /\ UNCHANGED <<cfg, idx, attempts, response, random_value, signed, sent,
                   nackAt, sigResp, exit_code>>
    /\ UNCHANGED notUnlock

\* _send_cert_fragments(fragments[:-1]) on a responsive MCU: each fragment is
\* sent and its response read; the response is not looked at.
SendCertFragment(r) ==
    /\ upc = "cert" /\ mcu_responsive = "true"
    /\ sent' = Append(sent, CertFragment(idx))
    /\ NoteAck(r, idx)
    /\ idx' = idx + 1
    /\ upc' = IF idx = CERT_FRAGMENTS - 1 THEN "cert_last" ELSE "cert"
    /\ UNCHANGED <<cfg, mcu_responsive, attempts, response, random_value, signed,
                   sigResp, exit_code>>
    /\ UNCHANGED notUnlock

\* _send_cert_fragments(fragments, blind_mode=True): all fragments, no read.
SendCertBlind ==
    /\ upc = "cert" /\ mcu_responsive = "false"
    /\ sent' = Append(sent, CertFragment(idx))
    /\ idx' = idx + 1
    /\ upc' = IF idx = CERT_FRAGMENTS THEN "manual" ELSE "cert"
    /\ UNCHANGED <<cfg, mcu_responsive, attempts, response, random_value, signed,
                   nackAt, sigResp, exit_code>>
    /\ UNCHANGED notUnlock

\* Shell_SentCertCmd: the last fragment; the nonce is looked for in its response.
SendLastCert(r) ==
    /\ upc = "cert_last"
    /\ sent' = Append(sent, CertFragment(idx))
    /\ NoteAck(r, idx)
    /\ response' = r
    /\ random_value' = ExtractRandomNumber(r)
    /\ upc' = IF random_value' # <<>> THEN "sign" ELSE "trigger"
    /\ UNCHANGED <<cfg, mcu_responsive, idx, attempts, signed, sigResp, exit_code>>
    /\ UNCHANGED notUnlock

\* Shell_SentCertCmd: an empty command to make the MCU print the nonce; main()
\* exits with status 1 when there still is none.
TriggerRandom(r) ==
    /\ upc = "trigger"
    /\ response' = r
    /\ random_value' = ExtractRandomNumber(r)
    /\ IF random_value' # <<>> THEN upc' = "sign" /\ UNCHANGED exit_code ELSE Exit("1")
    /\ UNCHANGED <<cfg, mcu_responsive, idx, attempts, signed, sent, nackAt, sigResp>>
    /\ UNCHANGED notUnlock

\* _get_random_interactive: up to three inputs; a valid one is upper-cased.
GetRandomInteractive(inp) ==
    /\ upc = "manual"
    /\ IF ValidInput(inp)
       THEN /\ random_value' = Upper(inp)
            /\ upc' = "sign"
            /\ UNCHANGED <<attempts, exit_code>>
       ELSE /\ attempts' = attempts + 1
            /\ UNCHANGED random_value
            /\ IF attempts + 1 = INPUT_ATTEMPTS THEN Exit("1")
               ELSE UNCHANGED <<upc, exit_code>>
    /\ UNCHANGED <<cfg, mcu_responsive, idx, response, signed, sent, nackAt, sigResp>>
    /\ UNCHANGED notUnlock

\* KeyboardInterrupt at one of the two prompts of the blind mode.
Interrupt ==
    /\ upc \in {"manual", "confirm"}
    /\ Exit("1")
    /\ UNCHANGED <<cfg, mcu_responsive, idx, attempts, response, random_value,
                   signed, sent, nackAt, sigResp>>
    /\ UNCHANGED notUnlock

\* Gen_Signature: sign the nonce bytes.
GenSignature ==
    /\ upc = "sign"
    /\ signed' = TRUE
    /\ idx' = 1
    /\ upc' = "sig"
    /\ UNCHANGED <<cfg, mcu_responsive, attempts, response, random_value, sent,
                   nackAt, sigResp, exit_code>>
    /\ UNCHANGED notUnlock

\* Shell_SentSignatureCmd on a responsive MCU: the verdict is read from the
\* response to the last fragment.
SendSignature(r) ==
    /\ upc = "sig" /\ mcu_responsive = "true"
    /\ sent' = Append(sent, SigFragment(idx))
    /\ IF idx < SIG_FRAGMENTS
       THEN /\ idx' = idx + 1
            /\ UNCHANGED <<upc, response, sigResp, exit_code>>
       ELSE /\ response' = r
            /\ sigResp' = r
            /\ UNCHANGED idx
            /\ IF r # NoneText /\ Contains(r, "SIGOK")
               THEN upc' = "final" /\ UNCHANGED exit_code
               ELSE Exit("1")
    /\ UNCHANGED <<cfg, mcu_responsive, attempts, random_value, signed, nackAt>>
    /\ UNCHANGED notUnlock

\* SendSignatureBlind sending the fragments from the last to the first.
SendSignatureBlind_Reversed ==
    /\ upc = "sig" /\ mcu_responsive = "false"
    /\ sent' = Append(sent, SigFragment(SIG_FRAGMENTS + 1 - idx))
    /\ IF idx < SIG_FRAGMENTS
       THEN idx' = idx + 1 /\ UNCHANGED upc
       ELSE upc' = "confirm" /\ UNCHANGED idx
    /\ UNCHANGED <<cfg, mcu_responsive, attempts, response, random_value, signed,
                   nackAt, sigResp, exit_code>>
    /\ UNCHANGED notUnlock

\* Shell_SentSignatureCmd in blind mode: three fragments, no read.
SendSignatureBlind ==
    /\ upc = "sig" /\ mcu_responsive = "false"
    /\ sent' = Append(sent, SigFragment(idx))
    /\ IF idx < SIG_FRAGMENTS
       THEN idx' = idx + 1 /\ UNCHANGED upc
       ELSE upc' = "confirm" /\ UNCHANGED idx
    /\ UNCHANGED <<cfg, mcu_responsive, attempts, response, random_value, signed,
                   nackAt, sigResp, exit_code>>
    /\ UNCHANGED notUnlock

\* Shell_SentSignatureCmd in blind mode: the operator says whether the terminal
\* showed the verification succeed.
UserConfirm(ans) ==
    /\ upc = "confirm"
    /\ IF ans = "y" THEN upc' = "final" /\ UNCHANGED exit_code ELSE Exit("1")
    /\ UNCHANGED <<cfg, mcu_responsive, idx, attempts, response, random_value,
                   signed, sent, nackAt, sigResp>>
    /\ UNCHANGED notUnlock

\* UnlockMCU.__call__, first loop: send a chunk, exit(1) unless it is ACKed.
UtilSendCert(r) ==
    /\ impl = "util" /\ upc = "u_cert"
    /\ sent' = Append(sent, UtilFragment("cert", cert_len, CERT_CHUNK, idx))
    /\ NoteAck(r, idx)
    /\ response' = r
    /\ IF ~Contains(r, "ACK") THEN Exit("1") /\ UNCHANGED idx
       ELSE IF idx = NChunks(cert_len, CERT_CHUNK)
            THEN upc' = "u_sign" /\ UNCHANGED <<idx, exit_code>>
            ELSE idx' = idx + 1 /\ UNCHANGED <<upc, exit_code>>
    /\ UNCHANGED <<cfg, mcu_responsive, attempts, random_value, signed, sigResp>>
    /\ UNCHANGED notUnlock

\* UnlockMCU.__call__: random_data = result.split("Rondom numbers are:")[-1],
\* then __gen_signature: open the key file and sign bytes.fromhex(random_data).
\* Either step raising ends the process with a traceback.
UtilGenSignature ==
    /\ impl = "util" /\ upc = "u_sign"
    /\ LET random_data == Expand(AfterLast(response, "MARK")) IN
       IF key_ok /\ FromHexOk(random_data, FALSE)
       THEN /\ random_value' = Norm(Cleaned(random_data))
            /\ signed' = TRUE
            /\ idx' = 1
            /\ upc' = "u_sig"
            /\ UNCHANGED exit_code
       ELSE /\ Exit("1")
            /\ UNCHANGED <<random_value, signed, idx>>
    /\ UNCHANGED <<cfg, mcu_responsive, attempts, response, sent, nackAt, sigResp>>
    /\ UNCHANGED notUnlock

\* UnlockMCU.__call__, second loop and verdict: every chunk must be ACKed, and
\* the last response must hold "Debug mode ON!".
UtilSendSig(r) ==
    /\ impl = "util" /\ upc = "u_sig"
    /\ sent' = Append(sent, UtilFragment("sig", SIG_HEX_LEN, SIG_CHUNK, idx))
    /\ response' = r
    /\ sigResp' = IF idx = NChunks(SIG_HEX_LEN, SIG_CHUNK) THEN r ELSE sigResp
    /\ IF ~Contains(r, "ACK") THEN Exit("1") /\ UNCHANGED idx
       ELSE IF idx = NChunks(SIG_HEX_LEN, SIG_CHUNK)
            THEN Exit(IF Contains(r, "DBGON") THEN "0" ELSE "1") /\ UNCHANGED idx
            ELSE idx' = idx + 1 /\ UNCHANGED <<upc, exit_code>>
    /\ UNCHANGED <<cfg, mcu_responsive, attempts, random_value, signed, nackAt>>
    /\ UNCHANGED notUnlock

\* Bound: the calls of detect_mcu_responsiveness made on one object.
MaxDetects == 4

\* What _send_command may return to a probe: as in a session, or white space only.
DetResponses == SdbgResponses \cup {<<Run("w", 2)>>}

\* A SerialConnect object after __init__: nothing cached, nothing sent.
\* probes: the probe commands written to the port; returns: what each call
\* of detect_mcu_responsiveness returned, with the probes sent by then.
Det0 ==
    [pc |-> "idle", mcu_responsive |-> "none", probes |-> <<>>, response |-> <<>>,
     returns |-> <<>>]

\* detect_mcu_responsiveness returns v.
DetectReturn(d, v) ==
    [d EXCEPT !.pc = "idle",
              !.returns = Append(@, [value |-> v, probes |-> Len(d.probes)])]

\* DetectCall testing the cached verdict for truth instead of for None.
DetectCall_Truthy ==
    /\ det.pc = "idle"
    /\ Len(det.returns) < MaxDetects
    /\ det' = IF det.mcu_responsive = "true" THEN DetectReturn(det, det.mcu_responsive)
              ELSE [det EXCEPT !.pc = "help"]
    /\ UNCHANGED notDet

\* detect_mcu_responsiveness is called: a cached verdict is returned at once,
\* otherwise the probing begins.
DetectCall ==
    /\ det.pc = "idle"
    /\ Len(det.returns) < MaxDetects
    /\ det' = IF det.mcu_responsive # "none" THEN DetectReturn(det, det.mcu_responsive)
              ELSE [det EXCEPT !.pc = "help"]
    /\ UNCHANGED notDet

\* for cmd in ["help", ""]: one probe; the first response that is not blank
\* makes the verdict True, two blank ones make it False; the verdict is cached.
DetectProbe(r) ==
    /\ det.pc \in {"help", "empty"}
    /\ LET d == [det EXCEPT !.probes = Append(@, IF det.pc = "help" THEN "help" ELSE ""),
                            !.response = r]
       IN det' = IF NonBlank(r) THEN DetectReturn([d EXCEPT !.mcu_responsive = "true"], "true")
                 ELSE IF det.pc = "help" THEN [d EXCEPT !.pc = "empty"]
                 ELSE DetectReturn([d EXCEPT !.mcu_responsive = "false"], "false")
    /\ UNCHANGED notDet

DetNext ==
    \/ DetectCall
    \/ \E r \in DetResponses : DetectProbe(r)

\* No relay call is in progress.
RelayIdle ==
    /\ relay_type = "default"
    /\ portState = [p \in Ports |-> PORT_ON]
    /\ relay_lock = "free"
    /\ pc = [w \in Workers |-> "idle"]
    /\ action = [w \in Workers |-> "on"]
    /\ port = [w \in Workers |-> relay_port(w)]
    /\ answer = [w \in Workers |-> "none"]
    /\ acquired = [w \in Workers |-> "none"]
    /\ ret = [w \in Workers |-> "none"]
    /\ result = [w \in Workers |-> "none"]
    /\ wire = [w \in Workers |-> <<>>]
    /\ unlocked = [w \in Workers |-> FALSE]
    /\ seen = [w \in Workers |-> <<>>]
    /\ failed = [w \in Workers |-> FALSE]
    /\ ncalls = 0

DetInit ==
    /\ det = Det0
    /\ RelayIdle
    /\ UnlockIdle
    /\ boot = [pc |-> "done"]
    /\ fb = [pc |-> "done"]

UnlockInit ==
    /\ impl \in {"sdbg", "util"}
    /\ key_ok \in BOOLEAN
    /\ cert_len \in (IF impl = "util" THEN 1..MaxCertLen ELSE {CERT_TOTAL})
    /\ upc = IF impl = "sdbg" THEN "start" ELSE "u_cert"
    /\ mcu_responsive = "none"
    /\ idx = 1
    /\ attempts = 0
    /\ response = <<>>
    /\ random_value = <<>>
    /\ signed = FALSE
    /\ sent = <<>>
    /\ nackAt = 0
    /\ sigResp = Unread
    /\ exit_code = "running"
    /\ RelayIdle
    /\ boot = [pc |-> "done"]
    /\ fb = [pc |-> "done"]
    /\ det = [pc |-> "done"]

UnlockNext ==
    \/ SdbgStart
    \/ \E r \in SdbgResponses : McuVersionShow(r)
    \/ \E r \in SdbgResponses : DetectMcuResponsiveness(r)
    \/ \E r \in SdbgResponses : SendCertFragment(r)
    \/ SendCertBlind
    \/ \E r \in SdbgResponses : SendLastCert(r)
    \/ \E r \in SdbgResponses : TriggerRandom(r)
    \/ \E inp \in NonceInputs : GetRandomInteractive(inp)
    \/ Interrupt
    \/ GenSignature
    \/ \E r \in SdbgResponses : SendSignature(r)
    \/ SendSignatureBlind
    \/ \E ans \in {"y", "n"} : UserConfirm(ans)
    \/ \E r \in Responses : UtilSendCert(r)
    \/ UtilGenSignature
    \/ \E r \in Responses : UtilSendSig(r)

-----------------------------------------------------------------------------
(***************************************************************************)
(* Part III.  UART bootstrap (uartboot.py)                                 *)
(*                                                                         *)
(* `boot` is the state of one Uartboot.boot() call.  Wait loops that run   *)
(* until a deadline are given a number of polls instead of seconds.        *)
(***************************************************************************)

\* Bounds: polls a C-prompt wait, the uboot wait and the fastboot-address
\* wait can make before their deadlines pass.
MaxCPolls == 3
MaxUbootPolls == 2
MaxFbPolls == 2

\* Program constants.
CHECK_ATTEMPTS == 5
MAX_UNLOCK_ATTEMPTS == 3
GOTO_TRIES == 3
REBOOT_TRIES == 8
MAX_RETRY_TIMES == 10
SOC_C_NEEDED == 1
MCU_C_NEEDED == 2

\* Bytes drained after a transfer are counted modulo this.
DrainWrap == 2

\* -t: the way to put the MCU into UART boot mode.
UartOpts == {"mcu goto uart", "mcu reboot", "manual operation"}

\* -u: nothing, an image directory, a package file, a URL, or "latest".
Links == {"none", "dir", "file", "url", "latest"}

\* uart_boot_method['loading_step']: the steps of the board's boot script.
LoadingSteps ==
    << [uart_port |-> "mcu", img_data |-> <<"SBL.img">>],
       [uart_port |-> "hsm", img_data |-> <<"hsmfw_se.pkg">>],
       [uart_port |-> "soc", img_data |-> <<"spl.img", "uboot.img">>] >>

RECURSIVE Flatten(_)
\* for step in loading_step: for image in step["img_data"]
Flatten(steps) ==
    IF steps = <<>> THEN <<>>
    ELSE [i \in 1..Len(Head(steps).img_data) |->
             [uart_port |-> Head(steps).uart_port, image |-> Head(steps).img_data[i]]]
         \o Flatten(Tail(steps))

Images == Flatten(LoadingSteps)

\* Files that may lie in the scratch directory; "board-hsmfw_se.pkg" is the
\* board-prefixed HSM firmware __host_run_uartboot also accepts.
Files == {Images[i].image : i \in 1..Len(Images)} \cup {"board-hsmfw_se.pkg"}

\* What the SDK zip and the firmware directory add to the scratch directory.
SdkFiles == {"SBL.img", "J6_MCU_DEBUG.bin", "hsmfw_se.pkg"}

\* What a poll of a serial port may read.
Chunks == {"", "C", "CCC", "x", "Please enter 1 or 0"}

\* chunk == b'C' or chunk_str.strip() == 'C' or 'CCC' in chunk_str
IsC(chunk) == chunk \in {"C", "CCC"}

\* The 'C' characters at the end of what a port has delivered during one
\* wait, after read_all() returned chunk (three stand for three or more).
CRun(n, chunk) ==
    CASE chunk = "CCC" -> 3
      [] chunk = "C" -> IF n + 1 > 3 THEN 3 ELSE n + 1
      [] chunk = "" -> n
      [] OTHER -> 0

\* What xserial.send_cmd may report: the expected text was seen, the MCU says
\* "UART locked", or neither.
CmdOutputs == {"CCC", "UART locked", "x"}

Boot0 ==
    [pc |-> "start", uart_opt |-> "mcu goto uart", link |-> "none", present |-> {},
     check_for |-> "entry", tries |-> 0, c_count |-> 0, c_run |-> 0, output |-> "",
     unlock_attempt |-> 0, script_runs |-> 0, locked_seen |-> FALSE,
     after_unlock |-> "none", mode_cmds |-> 0, entry |-> "none",
     pkg_tries |-> 0, downloaded |-> FALSE, fetch |-> "none", extracted |-> FALSE,
     dl_failed |-> FALSE, prep |-> "none",
     cur |-> 1, polls |-> 0, drained |-> 0, xfers |-> <<>>, cwait_failed |-> FALSE,
     writes |-> {}, uboot_started |-> FALSE, matched |-> FALSE, fb_sent |-> FALSE,
     listening |-> FALSE, result |-> "none"]

\* boot() returns r.
BootReturn(b, r) == [b EXCEPT !.pc = "done", !.result = r]

\* __device_run_uart_start returns r; boot() goes on to the package on True.
EntryReturn(b, r) ==
    IF r THEN [b EXCEPT !.entry = "true", !.pc = "fetch"]
    ELSE BootReturn([b EXCEPT !.entry = "false"], "false")

\* boot() as far as the call of __device_run_uart_start.
BootStart ==
    /\ boot.pc = "start"
    /\ boot' = [boot EXCEPT !.pc = "check", !.check_for = "entry", !.tries = 0, !.c_count = 0]
    /\ UNCHANGED notBoot

\* The strategy chosen by uart_opt, entered when the MCU is not in UART mode.
StartMethod(b) ==
    [b EXCEPT !.pc = CASE b.uart_opt = "mcu goto uart" -> "relay"
                       [] b.uart_opt = "mcu reboot" -> "relay"
                       [] OTHER -> "check",
              !.check_for = "manual", !.tries = 0, !.c_count = 0]

\* __check_uart_mode returns r: to the caller named by check_for.
CheckReturn(b, r) ==
    IF r THEN EntryReturn(b, TRUE)
    ELSE IF b.check_for = "entry" THEN StartMethod(b)
    ELSE [b EXCEPT !.pc = "manual"]

\* __check_uart_mode, one of its five attempts: write a newline to the MCU,
\* read what is there.
CheckUartMode(resp) ==
    /\ boot.pc = "check"
    /\ LET b == [boot EXCEPT !.tries = @ + 1] IN
       boot' =
         IF resp = "" THEN
             (IF b.tries = CHECK_ATTEMPTS THEN CheckReturn(b, FALSE) ELSE b)
         ELSE IF IsC(resp) THEN
             (IF b.c_count + 1 >= 2 THEN CheckReturn(b, TRUE)
              ELSE IF b.tries = CHECK_ATTEMPTS
                   THEN CheckReturn([b EXCEPT !.c_count = @ + 1], FALSE)
                   ELSE [b EXCEPT !.c_count = @ + 1])
         ELSE IF resp = "#" THEN CheckReturn(b, FALSE)
         ELSE (IF b.tries = CHECK_ATTEMPTS THEN CheckReturn(b, FALSE)
               ELSE [b EXCEPT !.c_count = 0])
    /\ UNCHANGED notBoot

\* Relay(self.logger).execute("reboot") at the head of the two command strategies.
RelayReboot(ok) ==
    /\ boot.pc = "relay"
    /\ boot' = IF ~ok THEN EntryReturn(boot, FALSE)
               ELSE [boot EXCEPT !.pc = IF boot.uart_opt = "mcu goto uart" THEN "goto" ELSE "mcureboot",
                                 !.tries = 0, !.unlock_attempt = 0, !.output = ""]
    /\ UNCHANGED notBoot

\* The while loop's test after an unlock attempt that did not break out.
NextRound(b) ==
    IF b.unlock_attempt < MAX_UNLOCK_ATTEMPTS THEN [b EXCEPT !.pc = "goto", !.tries = 0]
    ELSE EntryReturn(b, FALSE)

\* An unlock attempt failed: give up after the last one, go round otherwise.
AfterFailedUnlock(b) ==
    IF b.unlock_attempt >= MAX_UNLOCK_ATTEMPTS THEN EntryReturn(b, FALSE)
    ELSE NextRound(b)

\* After the for loop: start an unlock attempt if the last output says
\* "UART locked", give up otherwise.
AfterTries(b) ==
    IF b.output = "UART locked"
    THEN [b EXCEPT !.unlock_attempt = @ + 1, !.pc = "unlock1"]
    ELSE EntryReturn(b, FALSE)

\* __device_run_uart_start_by_mcu_goto_uart: one send of mcu_goto_uart.
GotoUart(out) ==
    /\ boot.pc = "goto"
    /\ LET b == [boot EXCEPT !.tries = @ + 1, !.output = out, !.mode_cmds = @ + 1,
                            !.locked_seen = @ \/ out = "UART locked",
                            !.after_unlock = IF @ = "pending" THEN "resent" ELSE @]
       IN boot' = IF out = "CCC" THEN EntryReturn(b, TRUE)
                  ELSE IF out = "UART locked" \/ b.tries = GOTO_TRIES THEN AfterTries(b)
                  ELSE b
    /\ UNCHANGED notBoot

\* __execute_secure_debug_unlock cannot run the script (script or port device
\* missing): it returns False.
UnlockUnavailable ==
    /\ boot.pc = "unlock1"
    /\ boot' = AfterFailedUnlock(boot)
    /\ UNCHANGED notBoot

\* __execute_secure_debug_unlock: one run of SecureDebug_Serial_MCU.py, first
\* with port auto-detection, then, if that failed, with the MCU port named.
RunUnlock(code) ==
    /\ boot.pc \in {"unlock1", "unlock2"}
    /\ LET b == [boot EXCEPT !.script_runs = @ + 1] IN
       boot' =
         IF code = 0 THEN NextRound([b EXCEPT !.after_unlock = "pending"])
         ELSE IF b.pc = "unlock1" THEN [b EXCEPT !.pc = "unlock2"]
         ELSE AfterFailedUnlock(b)
    /\ UNCHANGED notBoot

\* __device_run_uart_start_by_mcu_reboot: one of eight sends of mcureboot/mcureset.
McuReboot(out) ==
    /\ boot.pc = "mcureboot"
    /\ LET b == [boot EXCEPT !.tries = @ + 1, !.output = out, !.mode_cmds = @ + 1] IN
       boot' = IF out = "CCC" THEN EntryReturn(b, TRUE)
               ELSE IF b.tries = REBOOT_TRIES THEN EntryReturn(b, FALSE)
               ELSE b
    /\ UNCHANGED notBoot

\* __device_run_uart_start_by_manual_operation: read_until(b"CCC"); what has
\* been read when it returns is "" only if nothing arrived before the timeout.
ManualOperation(out) ==
    /\ boot.pc = "manual"
    /\ boot' = EntryReturn([boot EXCEPT !.output = out], out # "")
    /\ UNCHANGED notBoot

\* __device_run_uart_start has returned True: its local variables are gone.
EntryOver(b) ==
    [b EXCEPT !.check_for = "entry", !.tries = 0, !.c_count = 0, !.output = "",
              !.unlock_attempt = 0, !.script_runs = 0, !.locked_seen = FALSE,
              !.after_unlock = "none", !.mode_cmds = 0]

\* boot(): settle the image directory from -u: a directory is used as it is
\* (files: what it holds), a package file is unzipped, a URL is downloaded
\* and unzipped; without -u a build output directory must exist (ok).  For
\* "latest", __get_latest_package_info indexes the keys of board_config, which
\* are strings, with 'device': that raises.
Fetch(link, ok, files) ==
    /\ boot.pc = "fetch"
    /\ link = "dir" => ok
    /\ LET b == [EntryOver(boot) EXCEPT !.link = link] IN
       boot' = IF link = "latest" THEN BootReturn(b, "raised")
               ELSE IF link = "url" THEN [b EXCEPT !.pc = "wget", !.pkg_tries = 0]
               ELSE IF link = "file" THEN [b EXCEPT !.pc = "unzip"]
               ELSE IF ok THEN [b EXCEPT !.pc = "prepare", !.present = files]
               ELSE BootReturn(b, "false")
    /\ UNCHANGED notBoot

\* __download_package: one wget run of at most ten; a run that fails may
\* leave a partial file, which is removed; after the tenth failure the method
\* returns (False, "") and boot() returns False.
DownloadPackage(ok, partial) ==
    /\ boot.pc = "wget"
    /\ LET b == [boot EXCEPT !.pkg_tries = @ + 1] IN
       boot' = IF ok THEN [b EXCEPT !.downloaded = TRUE, !.fetch = "true", !.pc = "unzip"]
               ELSE IF b.pkg_tries = MAX_RETRY_TIMES
                    THEN BootReturn([b EXCEPT !.downloaded = FALSE, !.fetch = "download failed"], "false")
                    ELSE [b EXCEPT !.downloaded = FALSE]
    /\ UNCHANGED notBoot

\* boot(): zip_ref.extractall(self.img_packages); files: what the directory
\* holds afterwards.  A bad zip makes boot() return False.
UnzipPackage(ok, files) ==
    /\ boot.pc = "unzip"
    /\ boot' = IF ok THEN [boot EXCEPT !.pc = "prepare", !.present = files,
                                       !.extracted = TRUE, !.pkg_tries = 0]
               ELSE BootReturn(boot, "false")
    /\ UNCHANGED notBoot

\* __prepare_mcu_package: an image of an MCU or HSM step is not in the directory.
NeedDownload(b) ==
    \E i \in 1..Len(Images) : Images[i].uart_port # "soc" /\ Images[i].image \notin b.present

\* boot(): `if not self.__prepare_mcu_package(...)`: False returns, True and
\* the pair (False, "") both go on to the loading steps.
PrepareReturn(b, r) ==
    IF r = "false" THEN BootReturn([b EXCEPT !.prep = r], "false")
    ELSE [b EXCEPT !.prep = r, !.pc = "load", !.cur = 1]

\* __prepare_mcu_package up to the download loop; has_sdk: mcu_package names
\* an SDK for the board.
PrepareMcuPackage(has_sdk) ==
    /\ boot.pc = "prepare"
    /\ boot' = IF ~NeedDownload(boot) THEN PrepareReturn(boot, "true")
               ELSE IF ~has_sdk THEN PrepareReturn(boot, "false")
               ELSE [boot EXCEPT !.pc = "download", !.tries = 0]
    /\ UNCHANGED notBoot

\* __prepare_mcu_package: one wget attempt of at most ten; after the tenth
\* failure the method returns the pair (False, "").
Download(ok) ==
    /\ boot.pc = "download"
    /\ LET b == [boot EXCEPT !.tries = @ + 1] IN
       boot' = IF ok THEN [b EXCEPT !.pc = "extract"]
               ELSE IF b.tries = MAX_RETRY_TIMES
                    THEN PrepareReturn([b EXCEPT !.dl_failed = TRUE], "pair")
                    ELSE b
    /\ UNCHANGED notBoot

\* __prepare_mcu_package: unzip the SDK, copy SBL.img, J6_MCU_DEBUG.bin and
\* the firmware directory's files (fw) into the image directory.
Extract(outcome, fw) ==
    /\ boot.pc = "extract"
    /\ boot' = IF outcome = "ok"
               THEN PrepareReturn([boot EXCEPT !.present = @ \cup {"SBL.img", "J6_MCU_DEBUG.bin"} \cup fw], "true")
               ELSE PrepareReturn(boot, "false")
    /\ UNCHANGED notBoot

\* The image file __host_run_uartboot finds for an image name.
Found(b, image) ==
    \/ image \in b.present
    \/ image = "hsmfw_se.pkg" /\ "board-hsmfw_se.pkg" \in b.present

\* A write to a serial port: which port, what, in which phase of which step.
Wrote(b, to, data, phase, step) ==
    [b EXCEPT !.writes = @ \cup {[to |-> to, data |-> data, phase |-> phase, step |-> step]}]

\* __host_run_uartboot: the next image of the script, or, after the last, the
\* wait for uboot.
NextImage ==
    /\ boot.pc = "load"
    /\ boot' = IF boot.cur > Len(Images)
               THEN [boot EXCEPT !.pc = "uboot", !.uboot_started = TRUE, !.polls = 0]
               ELSE IF Found(boot, Images[boot.cur].image)
                    THEN [boot EXCEPT !.pc = "cwait", !.polls = 0, !.c_count = 0, !.c_run = 0]
                    ELSE BootReturn(boot, "false")
    /\ UNCHANGED notBoot

\* WaitC as it would be if the newline were written on the SoC port as well.
WaitC_Active(chunk) ==
    /\ boot.pc = "cwait"
    /\ boot.polls < MaxCPolls
    /\ LET p == Images[boot.cur].uart_port
           b0 == [boot EXCEPT !.polls = @ + 1, !.c_run = CRun(@, chunk)]
           b1 == Wrote(b0, p, "\n", "cwait", p)
           b2 == IF chunk = "Please enter 1 or 0"
                 THEN Wrote(b1, p, "0", "cwait", p) ELSE b1
           needed == IF p = "soc" THEN SOC_C_NEEDED ELSE MCU_C_NEEDED
       IN boot' = IF IsC(chunk)
                  THEN (IF b2.c_count + 1 >= needed
                        THEN [b2 EXCEPT !.c_count = @ + 1, !.pc = "xmodem"]
                        ELSE [b2 EXCEPT !.c_count = @ + 1])
                  ELSE [b2 EXCEPT !.c_count = 0]
    /\ UNCHANGED notBoot

\* The wait for 'C' before an image, one poll: the SoC port is only read; on
\* the MCU and HSM ports a newline is written first and the SecureDebug
\* question is answered with "0".
WaitC(chunk) ==
    /\ boot.pc = "cwait"
    /\ boot.polls < MaxCPolls
    /\ LET p == Images[boot.cur].uart_port
           b0 == [boot EXCEPT !.polls = @ + 1, !.c_run = CRun(@, chunk)]
           b1 == IF p = "soc" THEN b0 ELSE Wrote(b0, p, "\n", "cwait", p)
           b2 == IF p # "soc" /\ chunk = "Please enter 1 or 0"
                 THEN Wrote(b1, p, "0", "cwait", p) ELSE b1
           needed == IF p = "soc" THEN SOC_C_NEEDED ELSE MCU_C_NEEDED
       IN boot' = IF IsC(chunk)
                  THEN (IF b2.c_count + 1 >= needed
                        THEN [b2 EXCEPT !.c_count = @ + 1, !.pc = "xmodem"]
                        ELSE [b2 EXCEPT !.c_count = @ + 1])
                  ELSE [b2 EXCEPT !.c_count = 0]
    /\ UNCHANGED notBoot

\* The wait's deadline passed without 'C': __host_run_uartboot returns False.
WaitCTimeout ==
    /\ boot.pc = "cwait"
    /\ boot.polls = MaxCPolls
    /\ boot' = BootReturn([boot EXCEPT !.cwait_failed = TRUE, !.c_run = 0], "false")
    /\ UNCHANGED notBoot

\* XmodemSend as it would be if the result of send() were not tested.
XmodemSend_Unchecked(ok) ==
    /\ boot.pc = "xmodem"
    /\ LET p == Images[boot.cur].uart_port
           b == Wrote([boot EXCEPT !.c_run = 0], p, "xmodem", "xmodem", p)
           x == [image |-> Images[boot.cur].image, status |-> IF ok THEN "sent" ELSE "failed"]
       IN boot' = [b EXCEPT !.xfers = Append(@, x), !.pc = "drain", !.drained = 0]
    /\ UNCHANGED notBoot

\* self.xmodem[port].send(stream, ...): the image's XMODEM transfer.
XmodemSend(ok) ==
    /\ boot.pc = "xmodem"
    /\ LET p == Images[boot.cur].uart_port
           b == Wrote([boot EXCEPT !.c_run = 0], p, "xmodem", "xmodem", p)
           x == [image |-> Images[boot.cur].image, status |-> IF ok THEN "sent" ELSE "failed"]
       IN boot' = IF ok THEN [b EXCEPT !.xfers = Append(@, x), !.pc = "drain", !.drained = 0]
                  ELSE BootReturn([b EXCEPT !.xfers = Append(@, x)], "false")
    /\ UNCHANGED notBoot

\* `while port.in_waiting and end_read_timeout`: end_read_timeout is a time
\* stamp, which is always true; the loop reads one byte while any is waiting.
Drain(in_waiting) ==
    /\ boot.pc = "drain"
    /\ boot' = IF in_waiting THEN [boot EXCEPT !.drained = (@ + 1) % DrainWrap]
               ELSE [boot EXCEPT !.xfers[Len(boot.xfers)].status = "drained",
                                 !.cur = @ + 1, !.pc = "load", !.drained = 0]
    /\ UNCHANGED notBoot

\* The wait for uboot, one round: past the deadline it gives up; otherwise it
\* writes a newline to the SoC and looks for a uboot prompt in what has come;
\* on a match it writes "fastboot udp".
WaitUboot(prompt) ==
    /\ boot.pc = "uboot"
    /\ boot' =
         IF boot.polls = MaxUbootPolls THEN BootReturn(boot, "false")
         ELSE LET b == Wrote([boot EXCEPT !.polls = @ + 1], "soc", "\n", "uboot", "none") IN
              IF prompt
              THEN [Wrote(b, "soc", "fastboot udp", "uboot", "none")
                       EXCEPT !.matched = TRUE, !.fb_sent = TRUE, !.pc = "fbwait", !.polls = 0]
              ELSE b
    /\ UNCHANGED notBoot

\* The wait for "Listening for fastboot command on <ip>", one poll; with or
\* without the address __host_run_uartboot returns True.
WaitFastboot(found) ==
    /\ boot.pc = "fbwait"
    /\ LET b == [boot EXCEPT !.polls = @ + 1] IN
       boot' = IF found THEN BootReturn([b EXCEPT !.listening = TRUE], "true")
               ELSE IF b.polls = MaxFbPolls THEN BootReturn(b, "true")
               ELSE b
    /\ UNCHANGED notBoot

\* main(): exit(not result); an exception that nothing catches ends the
\* process with status 1.
UartbootExit(r) == IF r = "true" THEN 0 ELSE 1

\* No boot() call is running.
BootIdle == boot = [pc |-> "done"]

BootInit ==
    /\ \E o \in UartOpts : boot = [Boot0 EXCEPT !.uart_opt = o]
    /\ RelayIdle
    /\ UnlockIdle
    /\ fb = [pc |-> "done"]
    /\ det = [pc |-> "done"]

BootNext ==
    \/ BootStart
    \/ \E r \in {"", "C", "CCC", "x", "#"} : CheckUartMode(r)
    \/ \E ok \in BOOLEAN : RelayReboot(ok)
    \/ \E out \in CmdOutputs : GotoUart(out)
    \/ UnlockUnavailable
    \/ \E code \in {0, 1} : RunUnlock(code)
    \/ \E out \in CmdOutputs : McuReboot(out)
    \/ \E out \in {"CCC", "", "x"} : ManualOperation(out)
    \/ \E link \in Links, ok \in BOOLEAN, files \in SUBSET Files : Fetch(link, ok, files)
    \/ \E ok, partial \in BOOLEAN : DownloadPackage(ok, partial)
    \/ \E ok \in BOOLEAN, files \in SUBSET Files : UnzipPackage(ok, files)
    \/ \E has_sdk \in BOOLEAN : PrepareMcuPackage(has_sdk)
    \/ \E ok \in BOOLEAN : Download(ok)
    \/ \E outcome \in {"ok", "badzip", "no SBL.img", "no J6_MCU_DEBUG.bin", "no firmware dir"},
          fw \in {{}, {"hsmfw_se.pkg"}} : Extract(outcome, fw)
    \/ NextImage
    \/ \E chunk \in Chunks : WaitC(chunk)
    \/ WaitCTimeout
    \/ \E ok \in BOOLEAN : XmodemSend(ok)
    \/ \E w \in BOOLEAN : Drain(w)
    \/ \E prompt \in BOOLEAN : WaitUboot(prompt)
    \/ \E found \in BOOLEAN : WaitFastboot(found)


-----------------------------------------------------------------------------
(***************************************************************************)
(* Part IV.  Fastboot flasher (fastboot.py)                                *)
(*                                                                         *)
(* `fb` is the state of one Fastboot.upgrade() call.  A fastboot command   *)
(* is a record; `opt` is the transport option it is prefixed with.         *)
(***************************************************************************)

\* Bound: the number of manifest files a directory holds at the start.
MaxFiles == 2

\* Program constants.
COMMAND_RETRY_TIMES == 3
FB_MAX_RETRY_TIMES == 10
SPARSE_LIMIT == 32 * 1024 * 1024

\* fastboot_type
Transports == {"eth", "usb"}

\* The keys of partition_flash_attribute.
PartitionTable ==
    {"gpt", "spl_ddr_a", "spl_ddr_b", "ubootenv", "acore_cfg", "acore_cfg_a",
     "acore_cfg_b", "bl31", "bl31_a", "bl31_b", "optee", "optee_a", "optee_b",
     "uboot", "uboot_a", "uboot_b", "vbmeta_a", "vbmeta_b", "boot_a", "boot_b",
     "system_a", "system_b", "system_verity_a", "system_verity_b", "basesystem_a",
     "basesystem_b", "app_param", "app_param_bak", "emmc_boot1"}

\* One entry of the manifest's "images": its file, the file's size, and for
\* each storage medium, in order, the partitions to flash.
Image(name, size, storages) == [name |-> name, size |-> size, storages |-> storages]

Storage(medium, parts) == [medium |-> medium, part_info |-> parts]

\* Manifests: images on eMMC only; images on several media and partitions;
\* an image on a medium the tool does not know; an image for a partition that
\* is not in the table; an image for such a partition on a medium the tool
\* does not know.
EmmcManifest ==
    << Image("boot.img", 1024, <<Storage("emmc", <<"boot_a">>)>>),
       Image("system.img", SPARSE_LIMIT + 1, <<Storage("emmc", <<"system_a">>)>>),
       Image("vbmeta.img", 1024, <<Storage("emmc", <<"vbmeta_a">>)>>) >>

MultiMediaManifest ==
    << Image("uboot.img", SPARSE_LIMIT, <<Storage("emmc", <<"uboot_a", "uboot_b">>)>>),
       Image("spl.img", 1024, <<Storage("emmc_boot0", <<"spl_ddr_a">>),
                                Storage("emmc_boot1", <<"emmc_boot1">>)>>),
       Image("mcu.img", SPARSE_LIMIT + 1, <<Storage("nor", <<"uboot">>)>>) >>

UnknownMediumManifest ==
    << Image("boot.img", 1024, <<Storage("ufs", <<"boot_a">>)>>),
       Image("vbmeta.img", 1024, <<Storage("emmc", <<"vbmeta_a">>)>>) >>

UnknownPartitionManifest ==
    << Image("boot.img", 1024, <<Storage("emmc", <<"boot_a">>)>>),
       Image("misc.img", 1024, <<Storage("emmc", <<"misc">>)>>) >>

SkippedPartitionManifest ==
    << Image("misc.img", 1024, <<Storage("ufs", <<"misc">>)>>),
       Image("vbmeta.img", 1024, <<Storage("emmc", <<"vbmeta_a">>)>>) >>

Manifests ==
    { EmmcManifest, MultiMediaManifest, UnknownMediumManifest,
      UnknownPartitionManifest, SkippedPartitionManifest }

\* host_name
HOST == "j6m"

\* A manifest file "data_<host><rest>.json": its host, the characters between
\* the host name and ".json", and its "images".  Neither "data_" nor a host
\* name holds "_V".
DataFile(host, rest, images) == [host |-> host, rest |-> rest, images |-> images]

\* Manifest files a directory may hold: data_j6m.json, data_j6m_old.json,
\* data_j6m_V9.9.json, data_j6m_V10.0.json, data_j6m_V2.10.json,
\* data_j6m_v3.0.json, and the manifest of another board, data_j6h.json.
DataFiles ==
    { DataFile(HOST, <<>>, EmmcManifest),
      DataFile(HOST, <<"_", "o", "l", "d">>, UnknownPartitionManifest),
      DataFile(HOST, <<"_", "V", "9", ".", "9">>, UnknownMediumManifest),
      DataFile(HOST, <<"_", "V", "1", "0", ".", "0">>, MultiMediaManifest),
      DataFile(HOST, <<"_", "V", "2", ".", "1", "0">>, SkippedPartitionManifest),
      DataFile(HOST, <<"_", "v", "3", ".", "0">>, EmmcManifest),
      DataFile("j6h", <<>>, EmmcManifest) }

Digit(c) == c \in {"0", "1", "2", "3", "4", "5", "6", "7", "8", "9"}

DigitVal(c) ==
    CASE c = "0" -> 0 [] c = "1" -> 1 [] c = "2" -> 2 [] c = "3" -> 3 [] c = "4" -> 4
      [] c = "5" -> 5 [] c = "6" -> 6 [] c = "7" -> 7 [] c = "8" -> 8 [] OTHER -> 9

\* re.match(f"data.*{host_name}.*json", file)
IsTargetJson(f) == f.host = HOST

\* re.match(f"data.*{host_name}_[Vv]{{1}}[0-9]{{1}}.[0-9]{{1}}.*json", file):
\* after the host name "_", "V" or "v", one digit, any one character, one
\* digit; ".json" begins with a character that is no digit.
IsLtsJson(f) ==
    /\ IsTargetJson(f)
    /\ Len(f.rest) >= 5
    /\ f.rest[1] = "_"
    /\ f.rest[2] \in {"V", "v"}
    /\ Digit(f.rest[3])
    /\ Digit(f.rest[5])

RECURSIVE DigitRun(_, _)
\* \d+ at position p: the number of digits from p on.
DigitRun(s, p) == IF p <= Len(s) /\ Digit(s[p]) THEN 1 + DigitRun(s, p + 1) ELSE 0

RECURSIVE Number(_, _, _, _)
\* float of the n digits from position p on, after acc.
Number(s, p, n, acc) ==
    IF n = 0 THEN acc ELSE Number(s, p + 1, n - 1, 10 * acc + DigitVal(s[p]))

\* r"_V(\d+)\.(\d+)" matches at position p.
VersionAt(s, p) ==
    /\ p + 1 <= Len(s)
    /\ s[p] = "_"
    /\ s[p + 1] = "V"
    /\ DigitRun(s, p + 2) >= 1
    /\ p + 2 + DigitRun(s, p + 2) <= Len(s)
    /\ s[p + 2 + DigitRun(s, p + 2)] = "."
    /\ DigitRun(s, p + 3 + DigitRun(s, p + 2)) >= 1

\* re.search(r"_V(\d+)\.(\d+)", x) finds a match.
HasVersion(f) == \E p \in 1..Len(f.rest) : VersionAt(f.rest, p)

\* tuple(map(float, re.search(r"_V(\d+)\.(\d+)", x).groups()))
VersionKey(f) ==
    LET s == f.rest
        p == CHOOSE q \in 1..Len(s) :
                 VersionAt(s, q) /\ \A r \in 1..(q - 1) : ~VersionAt(s, r)
        n == DigitRun(s, p + 2)
    IN  << Number(s, p + 2, n, 0), Number(s, p + 3 + n, DigitRun(s, p + 3 + n), 0) >>

\* Tuple order of the sort keys.
KeyLess(a, b) == a[1] < b[1] \/ (a[1] = b[1] /\ a[2] < b[2])

\* sorted(lts_data_jsons, key=...)[-1]: the sort is stable, so the last
\* element is the last of the list among those whose key is the greatest.
LastSorted(lts) ==
    lts[CHOOSE i \in 1..Len(lts) :
            /\ \A j \in 1..Len(lts) : ~KeyLess(VersionKey(lts[i]), VersionKey(lts[j]))
            /\ \A j \in (i + 1)..Len(lts) : KeyLess(VersionKey(lts[j]), VersionKey(lts[i]))]

\* The choice of data_json from what os.listdir returned: no manifest for the
\* host, the key of an LTS manifest cannot be computed (AttributeError), or
\* the manifest chosen.
SelectDataJson(listing) ==
    LET target_data_jsons == SelectSeq(listing, IsTargetJson)
        lts_data_jsons == SelectSeq(target_data_jsons, IsLtsJson)
    IN  IF target_data_jsons = <<>> THEN [kind |-> "none"]
        ELSE IF lts_data_jsons = <<>> THEN [kind |-> "file", file |-> target_data_jsons[1]]
        ELSE IF \E i \in 1..Len(lts_data_jsons) : ~HasVersion(lts_data_jsons[i])
             THEN [kind |-> "raise"]
        ELSE [kind |-> "file", file |-> LastSorted(lts_data_jsons)]

\* The orders in which os.listdir may return the files of a directory.
Listings(dir) ==
    { l \in [1..Cardinality(dir) -> dir] :
        \A i, j \in 1..Cardinality(dir) : l[i] = l[j] => i = j }

\* The two GPT images the tool puts in front of the manifest's images.
GptImages ==
    << Image("gpt_main_emmc.img", 1024, <<Storage("emmc", <<"gpt">>)>>),
       Image("gpt_main_emmc_boot0.img", 1024, <<Storage("emmc_boot0", <<"gpt">>)>>) >>

Oem(t, arg) == [op |-> "oem", opt |-> t, arg |-> arg]

Flash(t, target, sparse, image) ==
    [op |-> "flash", opt |-> t, target |-> target, sparse |-> sparse, image |-> image]

Reboot(t) == [op |-> "reboot", opt |-> t]

\* PartNum with the numbers of boot0 and boot1 exchanged.
PartNum_Swapped(part) == CASE part = "uda" -> 0 [] part = "boot0" -> 2 [] OTHER -> 1

\* emmc_num_dict
PartNum(part) == CASE part = "uda" -> 0 [] part = "boot0" -> 1 [] OTHER -> 2

\* __host_run_fastboot_format_init_command: the init commands of a medium.
InitCommands(t, module, part) ==
    IF module = "soc"
    THEN << Oem(t, "interface:blk"), Oem(t, "bootdevice:mmc"),
            Oem(t, <<"mmc partconf", 0, 1, 1, PartNum(part)>>) >>
    ELSE << Oem(t, "interface:mtd") >>

\* __host_run_fastboot_format_init_command: has_gpt of a medium.
HasGpt(module, part) == IF module = "soc" THEN part # "boot1" ELSE TRUE

KnownMedia == {"emmc", "emmc_boot0", "emmc_boot1", "nor"}

ModuleOf(medium) == IF medium = "nor" THEN "mcu" ELSE "soc"

PartOf(medium) ==
    CASE medium = "emmc" -> "uda" [] medium = "emmc_boot0" -> "boot0" [] OTHER -> "boot1"

\* PartCommands with the size in whole MiB (integer division).
PartCommands_WholeMiB(t, image, st) ==
    [i \in 1..Len(st.part_info) |->
        Flash(t,
              IF HasGpt(ModuleOf(st.medium), PartOf(st.medium)) THEN st.part_info[i] ELSE "0",
              image.size \div (1024 * 1024) > 32,
              image.name)]

\* The flash commands of one medium of one image: '-S 32M' for a file larger
\* than 32 MiB, the partition's name if the medium has a GPT, "0" otherwise.
PartCommands(t, image, st) ==
    [i \in 1..Len(st.part_info) |->
        Flash(t,
              IF HasGpt(ModuleOf(st.medium), PartOf(st.medium)) THEN st.part_info[i] ELSE "0",
              image.size > SPARSE_LIMIT,
              image.name)]

RECURSIVE MediaCommands(_, _, _)
\* for medium in storages: the medium's init commands, then its flash
\* commands; a medium that is not known is passed over.
MediaCommands(t, image, sts) ==
    IF sts = <<>> THEN <<>>
    ELSE (IF Head(sts).medium \in KnownMedia
          THEN InitCommands(t, ModuleOf(Head(sts).medium), PartOf(Head(sts).medium))
               \o PartCommands(t, image, Head(sts))
          ELSE <<>>)
         \o MediaCommands(t, image, Tail(sts))

RECURSIVE ImageCommands(_, _)
\* for image_info in data_dict["images"]
ImageCommands(t, images) ==
    IF images = <<>> THEN <<>>
    ELSE MediaCommands(t, Head(images), Head(images).storages) \o ImageCommands(t, Tail(images))

\* A partition of a known medium is missing from partition_flash_attribute:
\* looking up its timeout raises.
UnknownPartition(images) ==
    \E i \in 1..Len(images) : \E j \in 1..Len(images[i].storages) :
        /\ images[i].storages[j].medium \in KnownMedia
        /\ \E k \in 1..Len(images[i].storages[j].part_info) :
              images[i].storages[j].part_info[k] \notin PartitionTable

\* FlashCommands with the GPT images behind the manifest's images.
FlashCommands_GptLast(t, has_manifest, manifest) ==
    IF ~has_manifest THEN <<>> ELSE ImageCommands(t, manifest \o GptImages)

\* __host_run_fastboot_format_flash_command: [] without a manifest.
FlashCommands(t, has_manifest, manifest) ==
    IF ~has_manifest THEN <<>> ELSE ImageCommands(t, GptImages \o manifest)

\* __host_run_fastboot_format_deinit_command
DeinitCommands(t) == << Reboot(t) >>

\* -u: nothing, a package file, a URL, or "latest".
FbLinks == {"none", "file", "url", "latest"}

\* The state of one upgrade() call.  dir: the manifest files in
\* self.img_packages; downloaded: the file at package_path exists; pkg: the
\* manifest files of the package that was unzipped; first: target_data_jsons[0].
Fb0 ==
    [pc |-> "start", type |-> "usb", link |-> "none", tries |-> 0,
     downloaded |-> FALSE, fetch |-> "none", dir |-> {}, pkg |-> {},
     extracted |-> FALSE, selected |-> [kind |-> "unset"], first |-> <<>>,
     has_manifest |-> FALSE, manifest |-> <<>>,
     step |-> "flash",
     plan |-> <<>>, i |-> 1, retry |-> 0, done |-> <<>>, result |-> "none"]

FbReturn(f, r) == [f EXCEPT !.pc = "done", !.result = r]

\* __download_package returns (False, ""): upgrade() returns False.
FetchFailed(f, why) == FbReturn([f EXCEPT !.fetch = why], "false")

\* upgrade() up to the package: without a host name it returns False; without
\* -u a build output directory must exist; a package file is unzipped; a URL
\* is downloaded; for "latest" the artifact server is asked first, and when
\* it does not answer, unpacking the False it returns raises.
Upgrade(host_ok, link, avail) ==
    /\ fb.pc = "start"
    /\ LET f == [fb EXCEPT !.link = link] IN
       fb' = IF ~host_ok THEN FbReturn(f, "false")
             ELSE IF link = "none"
                  THEN (IF avail THEN [f EXCEPT !.pc = "device"] ELSE FbReturn(f, "false"))
             ELSE IF link = "file" THEN [f EXCEPT !.pc = "extract"]
             ELSE IF link = "latest" /\ ~avail THEN FbReturn(f, "raised")
             ELSE [f EXCEPT !.pc = "wget", !.tries = 0]
    /\ UNCHANGED notFb

\* Wget leaving the partial file of a failed download where it is.
Wget_NoCleanup(ok, partial) ==
    /\ fb.pc = "wget"
    /\ LET f == [fb EXCEPT !.tries = @ + 1] IN
       fb' = IF ok
             THEN [f EXCEPT !.downloaded = TRUE, !.fetch = "downloaded",
                            !.pc = IF f.link = "latest" THEN "check" ELSE "extract"]
             ELSE IF f.tries = FB_MAX_RETRY_TIMES
                  THEN FetchFailed([f EXCEPT !.downloaded = partial], "download failed")
                  ELSE [f EXCEPT !.downloaded = partial]
    /\ UNCHANGED notFb

\* __download_package: one wget run of at most ten; a run that fails may
\* leave a partial file, which is removed; after the tenth failure the method
\* returns (False, "").
Wget(ok, partial) ==
    /\ fb.pc = "wget"
    /\ LET f == [fb EXCEPT !.tries = @ + 1] IN
       fb' = IF ok
             THEN [f EXCEPT !.downloaded = TRUE, !.fetch = "downloaded",
                            !.pc = IF f.link = "latest" THEN "check" ELSE "extract"]
             ELSE IF f.tries = FB_MAX_RETRY_TIMES
                  THEN FetchFailed([f EXCEPT !.downloaded = FALSE], "download failed")
                  ELSE [f EXCEPT !.downloaded = FALSE]
    /\ UNCHANGED notFb

\* __check_latest_package: the size, then the MD5, against the server's
\* descriptor; on a mismatch __download_package returns (False, '').
CheckLatestPackage(size_ok, md5_ok) ==
    /\ fb.pc = "check"
    /\ fb' = IF size_ok /\ md5_ok THEN [fb EXCEPT !.fetch = "true", !.pc = "extract"]
             ELSE FetchFailed(fb, "check failed")
    /\ UNCHANGED notFb

\* upgrade(): zip_ref.extractall(self.img_packages) adds the package's files
\* to the directory; a bad zip, or for the MCU a package without IMG/, makes
\* upgrade() return False.
Unzip(outcome, pkg) ==
    /\ fb.pc = "extract"
    /\ fb' = IF outcome = "ok"
             THEN [fb EXCEPT !.dir = @ \cup pkg, !.pkg = pkg, !.extracted = TRUE,
                             !.tries = 0, !.pc = "device"]
             ELSE FbReturn(fb, "false")
    /\ UNCHANGED notFb

\* upgrade(): __device_run_fastboot, then __connect_target.
DeviceRunFastboot(started, connected) ==
    /\ fb.pc = "device"
    /\ fb' = IF started /\ connected THEN [fb EXCEPT !.pc = "plan", !.step = "flash"]
             ELSE FbReturn(fb, "false")
    /\ UNCHANGED notFb

\* __host_run_fastboot: the commands of the step in hand are generated.  For
\* "flash", listing is what os.listdir returns; reading the size of a GPT
\* image that is missing, or the timeout of a partition the table lacks, raises.
MakePlan(gpt_ok) ==
    /\ fb.pc = "plan"
    /\ \E listing \in Listings(fb.dir) :
         fb' =
           IF fb.step = "deinit"
           THEN [fb EXCEPT !.plan = DeinitCommands(fb.type), !.i = 1, !.retry = 0, !.pc = "run"]
           ELSE LET sel == SelectDataJson(listing)
                    targets == SelectSeq(listing, IsTargetJson)
                    f == [fb EXCEPT !.selected = sel,
                                    !.first = IF targets = <<>> THEN <<>> ELSE <<targets[1]>>]
                IN  IF sel.kind = "raise" THEN FbReturn(f, "raised")
                    ELSE IF sel.kind = "none"
                         THEN [f EXCEPT !.plan = FlashCommands(f.type, FALSE, <<>>),
                                        !.i = 1, !.retry = 0, !.pc = "run"]
                    ELSE LET g == [f EXCEPT !.has_manifest = TRUE, !.manifest = sel.file.images] IN
                         IF ~gpt_ok \/ UnknownPartition(g.manifest) THEN FbReturn(g, "raised")
                         ELSE [g EXCEPT !.plan = FlashCommands(g.type, TRUE, g.manifest),
                                        !.i = 1, !.retry = 0, !.pc = "run"]
    /\ UNCHANGED notFb

\* RunCommand going on to the next command after the third failure.
RunCommand_Skip(ok) ==
    /\ fb.pc = "run"
    /\ fb' =
         IF fb.i > Len(fb.plan)
         THEN (IF fb.step = "flash" THEN [fb EXCEPT !.step = "deinit", !.pc = "plan"]
               ELSE FbReturn(fb, "true"))
         ELSE IF ok THEN [fb EXCEPT !.done = Append(@, fb.plan[fb.i]), !.i = @ + 1, !.retry = 0]
         ELSE IF fb.retry + 1 = COMMAND_RETRY_TIMES THEN [fb EXCEPT !.i = @ + 1, !.retry = 0]
         ELSE [fb EXCEPT !.retry = @ + 1]
    /\ UNCHANGED notFb

\* __host_run_fastboot: one run of the command in hand; after the last
\* command of "flash" comes "deinit", after "deinit" the method returns True;
\* a command that failed three times makes it return False.
RunCommand(ok) ==
    /\ fb.pc = "run"
    /\ fb' =
         IF fb.i > Len(fb.plan)
         THEN (IF fb.step = "flash" THEN [fb EXCEPT !.step = "deinit", !.pc = "plan"]
               ELSE FbReturn(fb, "true"))
         ELSE IF ok THEN [fb EXCEPT !.done = Append(@, fb.plan[fb.i]), !.i = @ + 1, !.retry = 0]
         ELSE IF fb.retry + 1 = COMMAND_RETRY_TIMES THEN FbReturn([fb EXCEPT !.retry = @ + 1], "false")
         ELSE [fb EXCEPT !.retry = @ + 1]
    /\ UNCHANGED notFb

\* main(): exit(not result); an exception that nothing catches ends the
\* process with status 1.
FastbootExit(r) == IF r = "true" THEN 0 ELSE 1

\* The directories the tool may find: at most MaxFiles manifest files.
Dirs == { d \in SUBSET DataFiles : Cardinality(d) <= MaxFiles }

\* The manifest files a package may hold: none or one.
Packages == { d \in SUBSET DataFiles : Cardinality(d) <= 1 }

FbInit ==
    /\ \E t \in Transports, d \in Dirs : fb = [Fb0 EXCEPT !.type = t, !.dir = d]
    /\ RelayIdle
    /\ UnlockIdle
    /\ boot = [pc |-> "done"]
    /\ det = [pc |-> "done"]

FbNext ==
    \/ \E host_ok, avail \in BOOLEAN, link \in FbLinks : Upgrade(host_ok, link, avail)
    \/ \E ok, partial \in BOOLEAN : Wget(ok, partial)
    \/ \E size_ok, md5_ok \in BOOLEAN : CheckLatestPackage(size_ok, md5_ok)
    \/ \E outcome \in {"ok", "badzip", "no IMG"}, pkg \in Packages : Unzip(outcome, pkg)
    \/ \E started, connected \in BOOLEAN : DeviceRunFastboot(started, connected)
    \/ \E gpt_ok \in BOOLEAN : MakePlan(gpt_ok)
    \/ \E ok \in BOOLEAN : RunCommand(ok)

-----------------------------------------------------------------------------
(***************************************************************************)
(* Specifications                                                          *)
(***************************************************************************)

SpecRelay == RelayInit /\ [][RelayNext]_vars

SpecUnlock == UnlockInit /\ [][UnlockNext]_vars

SpecBoot == BootInit /\ [][BootNext]_vars

\* The call keeps running as long as it can take a step.
SpecBootFair == SpecBoot /\ WF_vars(BootNext)

SpecFastboot == FbInit /\ [][FbNext]_vars

\* One of the two tools that fetch a package is run: uartboot or fastboot.
FetchInit ==
    /\ RelayIdle
    /\ UnlockIdle
    /\ det = [pc |-> "done"]
    /\ \/ /\ \E o \in UartOpts : boot = [Boot0 EXCEPT !.uart_opt = o]
          /\ fb = [pc |-> "done"]
       \/ /\ \E t \in Transports, d \in Dirs : fb = [Fb0 EXCEPT !.type = t, !.dir = d]
          /\ boot = [pc |-> "done"]

FetchNext == BootNext \/ FbNext

SpecFetch == FetchInit /\ [][FetchNext]_vars

SpecDetect == DetInit /\ [][DetNext]_vars

-----------------------------------------------------------------------------
(***************************************************************************)
(* Part I.  Properties of the relay driver                                 *)
(***************************************************************************)

\* Positions from which the call has another wire command to issue.
WirePcs == {"d_status", "d_ctrl_on", "d_ctrl_off", "d_chk_on", "d_chk_off",
            "z_rd_on", "z_rd_off", "z_wr_on", "z_wr_off", "c_on", "c_off", "sleep"}

\* The worker is inside its command sequence: it has issued a wire command and
\* has not yet finished the sequence.
Issuing(w) == Len(wire[w]) >= 1 /\ pc[w] \in WirePcs

\* The call got as far as the relay, met no transport failure and no exception,
\* and no other call ran before or beside it.
RanAlone(w) ==
    /\ pc[w] = "done"
    /\ port[w] \in Ports
    /\ Len(wire[w]) >= 1
    /\ ~failed[w]
    /\ result[w] # "raised"
    /\ ncalls = 1

Switches(w) == {i \in 1..Len(wire[w]) : wire[w][i].kind = "switch"}

\* The port was OFF at some moment of the call and ON at a later one, and is
\* ON at the end.
SeenOffThenOn(w) ==
    /\ \E i, j \in 1..Len(seen[w]) : i < j /\ seen[w][i] = PORT_OFF /\ seen[w][j] = PORT_ON
    /\ seen[w] # <<>> /\ seen[w][Len(seen[w])] = PORT_ON

\* C1: on the HTTP backend, whose execute() takes the lock, no two workers are
\* inside their wire-command sequences at the same moment.
C1_Exclusive ==
    relay_type = "default" =>
        \A a, b \in Workers : a # b => ~(Issuing(a) /\ Issuing(b))

\* C2: on every backend, every wire command of a relay operation is issued
\* while the calling process holds the lock "carizon_relay".
C2_LockHeld == \A w \in Workers : ~unlocked[w]

\* C3: on every backend and from either initial state of the port, a reboot
\* that reached the relay drives the port OFF and then ON, under the lock, and
\* reports success.
C3_RebootOffOn ==
    \A w \in Workers :
        (RanAlone(w) /\ action[w] = "reboot") =>
            /\ result[w] = "true"
            /\ SeenOffThenOn(w)
            /\ ~unlocked[w]

\* C4: on every backend, on(p) for a port that is already ON, and off(p) for a
\* port that is already OFF, returns success and sends no switch command.
C4_Idempotent ==
    \A w \in Workers :
        (/\ RanAlone(w)
         /\ \/ action[w] = "on" /\ seen[w][1] = PORT_ON
            \/ action[w] = "off" /\ seen[w][1] = PORT_OFF)
        => (result[w] = "true" /\ Switches(w) = {})

\* C5: a call whose relay_lock.acquire() returned False reports failure and
\* has issued no wire command, neither a status query nor a switch.
C5_NoLockNoWire ==
    \A w \in Workers :
        acquired[w] = "no" => (pc[w] = "done" /\ result[w] = "false" /\ wire[w] = <<>>)

\* C5 witness: a worker was refused the lock while the other one held it.
C5_Witness ==
    \E w, v \in Workers :
        /\ w # v /\ acquired[w] = "no" /\ pc[w] = "done"
        /\ relay_lock = v /\ Issuing(v)

\* C6: on every backend, a call for a port other than the board's own power
\* port issues a wire command only after the operator answered "y"; after any
\* other answer or an interrupt it reports failure with nothing sent.
C6_ConfirmForeignPort ==
    \A w \in Workers :
        /\ (port[w] # relay_port(w) /\ wire[w] # <<>>) => answer[w] = "y"
        /\ answer[w] \in {"n", "x", "^C"} =>
               (pc[w] = "done" /\ result[w] = "false" /\ wire[w] = <<>>)

\* C7: on every backend, a call for a port above 16 reports failure without
\* taking the lock or issuing a wire command, so every port a switch command
\* is issued for lies in 1..16.
C7_PortRange ==
    \A w \in Workers :
        /\ port[w] > MAX_PORT_NUM =>
               (pc[w] = "done" /\ result[w] = "false" /\ acquired[w] = "none"
                /\ wire[w] = <<>>)
        /\ \A i \in Switches(w) : wire[w][i].port \in 1..MAX_PORT_NUM

-----------------------------------------------------------------------------
(***************************************************************************)
(* Part II.  Properties of the unlock session                              *)
(***************************************************************************)

\* A signature fragment has gone out on the serial line.
SigSent == \E i \in 1..Len(sent) : sent[i].cmd = "sig"

\* The nonce in hand is exactly 64 hex characters.
NonceObtained ==
    /\ Chars(random_value) = NONCE_LEN
    /\ \A i \in 1..Len(random_value) : IsHex(random_value[i].cls)

\* The final signature fragment's response carries one of the two success texts.
VerifyTextSeen == Contains(sigResp, "SIGOK") \/ Contains(sigResp, "DBGON")

\* C8: in both implementations a signature is computed, and signature
\* fragments are sent, only once a nonce of exactly 64 hex characters has been
\* obtained; a session that ends without such a nonce has failed and has sent
\* no signature fragment.
C8_SignAfterNonce ==
    /\ (signed \/ SigSent) => NonceObtained
    /\ (upc = "exit" /\ ~NonceObtained) => (exit_code = "1" /\ ~SigSent)

\* C9: when the response read for certificate fragment i lacks "Successfully
\* received data", the session stops there: nothing with a higher index and no
\* signature fragment is sent, and the session has failed.
C9_AbortOnMissingAck ==
    nackAt # 0 =>
        /\ \A i \in 1..Len(sent) : sent[i].cmd = "cert" /\ sent[i].index <= nackAt
        /\ upc = "exit" => exit_code = "1"

\* C10: a session that read the response to the final signature fragment
\* reports success if and only if that response contains "Signature Verify Ok"
\* or "Debug mode ON!".
C10_SuccessIffVerifyText ==
    (upc = "exit" /\ sigResp # Unread) => (exit_code = "0" <=> VerifyTextSeen)

\* The text has "Rondom numbers are:" with at least 64 hex characters right after it.
MarkerThenNonce(text) ==
    \E i \in 1..Len(text) :
        /\ text[i].cls = "MARK"
        /\ LET rest == Expand(SubSeq(text, i + 1, Len(text))) IN
           /\ Chars(rest) >= NONCE_LEN
           /\ \A j \in 1..Len(Take(rest, NONCE_LEN)) : IsHex(rest[j].cls)

\* The 64 characters that follow the marker.
NonceAfterMarker(text) ==
    LET i == CHOOSE k \in 1..Len(text) : text[k].cls = "MARK"
    IN Norm(Take(Expand(SubSeq(text, i + 1, Len(text))), NONCE_LEN))

\* C11: when the text given to nonce extraction has "Rondom numbers are:"
\* immediately followed by 64 hex characters of either case, what extraction
\* returns is those 64 characters in upper case.
C11_ExtractUpperCase ==
    (impl = "sdbg" /\ upc \in {"sign", "trigger"} /\ MarkerThenNonce(response)) =>
        random_value = Upper(NonceAfterMarker(response))

\* The certificate fragments sent so far.
CertSent == SelectSeq(sent, LAMBDA f : f.cmd = "cert")

RECURSIVE SumLen(_)
SumLen(fs) == IF fs = <<>> THEN 0 ELSE Head(fs).len + SumLen(Tail(fs))

\* C12: in the certificate fragment stream of either implementation the
\* indices are 1, 2, ... in order, every declared length is the length of the
\* payload, every fragment declares the certificate's total length, the
\* lengths add up to that total exactly when the fragment flagged is_last has
\* gone out, and no other fragment carries the flag; a session that went on
\* past the certificate sent the whole stream.
C12_CertStream ==
    LET cs == CertSent IN
    /\ \A i \in 1..Len(cs) :
          /\ cs[i].index = i
          /\ cs[i].len = cs[i].payload
          /\ cs[i].len >= 1
          /\ cs[i].total = cert_len
          /\ cs[i].last \in {0, 1}
          /\ cs[i].last = 1 <=> SumLen(SubSeq(cs, 1, i)) = cert_len
          /\ cs[i].last = 1 => i = Len(cs)
    /\ SumLen(cs) <= cert_len
    /\ (signed \/ upc \in {"manual", "trigger", "u_sign"}) => SumLen(cs) = cert_len

\* mcu_util has sent a whole certificate whose last chunk is shorter than the others.
C12_Witness ==
    /\ impl = "util"
    /\ upc = "u_sign"
    /\ Len(CertSent) = 3
    /\ CertSent[3].len < CERT_CHUNK
    /\ CertSent[3].last = 1

-----------------------------------------------------------------------------
(***************************************************************************)
(* Part III.  Properties of the UART bootstrap                             *)
(***************************************************************************)

\* C13: within one UART-mode entry the unlock script is run at most three
\* times in total, and only after the MCU has answered "UART locked".
C13_UnlockRuns ==
    /\ boot.script_runs <= 3
    /\ boot.script_runs > 0 => boot.locked_seen

\* C14: in the "mcu goto uart" strategy every successful unlock is followed
\* by at least one more mcu_goto_uart command before the entry returns, and an
\* entry that ends on the answer "CCC" reports success.
C14_ResendAfterUnlock ==
    boot.entry # "none" =>
        /\ boot.after_unlock # "pending"
        /\ (boot.uart_opt = "mcu goto uart" /\ boot.output = "CCC") => boot.entry = "true"

\* The transfer of the image in hand, or the wait before it, failed.
LoadFailed ==
    \/ boot.cwait_failed
    \/ boot.xfers # <<>> /\ boot.xfers[Len(boot.xfers)].status = "failed"

\* C15: images are transferred in script order, each only after the one
\* before it was sent successfully and its trailing output drained; after a
\* failed wait for 'C' or a failed transfer no later image is transferred, the
\* wait for uboot is not started, and boot() reports failure.
C15_StrictOrder ==
    LET xs == boot.xfers IN
    /\ Len(xs) <= Len(Images)
    /\ \A i \in 1..Len(xs) : xs[i].image = Images[i].image
    /\ \A i \in 1..(Len(xs) - 1) : xs[i].status = "drained"
    /\ boot.pc \in {"cwait", "xmodem"} =>
          (Len(xs) = boot.cur - 1 /\ \A i \in 1..Len(xs) : xs[i].status = "drained")
    /\ boot.uboot_started =>
          (Len(xs) = Len(Images) /\ \A i \in 1..Len(xs) : xs[i].status = "drained")
    /\ LoadFailed =>
          /\ boot.pc = "done"
          /\ boot.result = "false"
          /\ ~boot.uboot_started
          /\ Len(xs) = IF boot.cwait_failed THEN boot.cur - 1 ELSE boot.cur

\* The third image's transfer failed after two images went through.
C15_Witness ==
    /\ Len(boot.xfers) = 3
    /\ boot.xfers[1].status = "drained"
    /\ boot.xfers[2].status = "drained"
    /\ boot.xfers[3].status = "failed"
    /\ boot.result = "false"

\* C16: nothing is written to the SoC port while a step on the MCU or HSM
\* port is in progress, nor during the wait for 'C' of a step on the SoC port.
C16_SocPassive ==
    \A w \in boot.writes :
        w.to = "soc" =>
            /\ w.step \notin {"mcu", "hsm"}
            /\ ~(w.step = "soc" /\ w.phase = "cwait")

\* The wait for 'C' of a SoC image ended after the MCU and HSM waits had
\* written their newlines.
C16_Witness ==
    /\ boot.pc = "xmodem"
    /\ Images[boot.cur].uart_port = "soc"
    /\ \E w \in boot.writes : w.to = "mcu" /\ w.phase = "cwait"
    /\ \E w \in boot.writes : w.to = "hsm" /\ w.phase = "cwait"

\* C17: every wait loop (mode check, wait for 'C', drain after a transfer,
\* wait for uboot, wait for the fastboot address) comes to an end whatever
\* the serial peer sends.
C17_WaitsEnd ==
    /\ (boot.pc = "check") ~> (boot.pc # "check")
    /\ (boot.pc = "cwait") ~> (boot.pc # "cwait")
    /\ (boot.pc = "drain") ~> (boot.pc # "drain")
    /\ (boot.pc = "uboot") ~> (boot.pc # "uboot")
    /\ (boot.pc = "fbwait") ~> (boot.pc # "fbwait")

\* C18: boot() reports success only after a uboot prompt matched, "fastboot
\* udp" was written and the SoC answered "Listening for fastboot command on
\* <ip>"; "fastboot udp" is never written before a uboot prompt matched.
C18_SuccessAfterListening ==
    /\ boot.result = "true" => (boot.matched /\ boot.fb_sent /\ boot.listening)
    /\ boot.fb_sent => boot.matched
    /\ \A w \in boot.writes : w.data = "fastboot udp" => boot.matched

\* C19: when an MCU/HSM image is missing and all ten download attempts have
\* failed, no XMODEM transfer is started and boot() does not report success.
C19_NoLoadAfterFailedDownload ==
    boot.dl_failed =>
        /\ boot.xfers = <<>>
        /\ boot.pc # "xmodem"
        /\ boot.result # "true"

-----------------------------------------------------------------------------
(***************************************************************************)
(* Part IV.  Properties of the fastboot flasher                            *)
(***************************************************************************)

\* Every image of the manifest is stored on the medium "emmc" only.
AllEmmc(manifest) ==
    \A i \in 1..Len(manifest) : \A j \in 1..Len(manifest[i].storages) :
        manifest[i].storages[j].medium = "emmc"

RECURSIVE PartFlashes(_, _, _)
\* One flash command per partition of one image.
PartFlashes(t, image, parts) ==
    IF parts = <<>> THEN <<>>
    ELSE <<Flash(t, Head(parts), image.size > 33554432, image.name)>>
         \o PartFlashes(t, image, Tail(parts))

RECURSIVE StorageFlashes(_, _, _)
StorageFlashes(t, image, sts) ==
    IF sts = <<>> THEN <<>>
    ELSE PartFlashes(t, image, Head(sts).part_info) \o StorageFlashes(t, image, Tail(sts))

RECURSIVE ManifestFlashes(_, _)
\* One flash command per image and partition, in manifest order.
ManifestFlashes(t, images) ==
    IF images = <<>> THEN <<>>
    ELSE StorageFlashes(t, Head(images), Head(images).storages)
         \o ManifestFlashes(t, Tail(images))

\* C20: for a manifest whose images all live on eMMC, the commands executed
\* by a successful upgrade are the three init commands once, flash gpt for
\* emmc, flash gpt for emmc_boot0, one flash per manifest image and partition
\* in manifest order, and reboot, with no init command among the flashes.
C20_EmmcCommandStream ==
    (fb.result = "true" /\ fb.has_manifest /\ AllEmmc(fb.manifest)) =>
        fb.done = InitCommands(fb.type, "soc", "uda")
                  \o ManifestFlashes(fb.type, GptImages)
                  \o ManifestFlashes(fb.type, fb.manifest)
                  \o <<Reboot(fb.type)>>

\* The images a flash plan is generated from, and the size in bytes of the
\* file a flash command names.
PlanImages == GptImages \o fb.manifest

SizeOf(name) ==
    PlanImages[CHOOSE i \in 1..Len(PlanImages) : PlanImages[i].name = name].size

FlashPlanInHand == fb.pc = "run" /\ fb.step = "flash"

\* C21: a generated flash command carries '-S 32M' if and only if its image
\* is larger than 33,554,432 bytes: absent at exactly 33,554,432 bytes,
\* present at 33,554,433 bytes.
C21_SparseFlag ==
    FlashPlanInHand =>
        \A k \in 1..Len(fb.plan) :
            fb.plan[k].op = "flash" =>
                (fb.plan[k].sparse <=> SizeOf(fb.plan[k].image) > 33554432)

\* A plan in hand with a file of exactly 32 MiB flashed without the flag and
\* a file one byte larger flashed with it.
C21_Witness ==
    /\ FlashPlanInHand
    /\ \E k \in 1..Len(fb.plan) :
          /\ fb.plan[k].op = "flash"
          /\ SizeOf(fb.plan[k].image) = 33554432
          /\ ~fb.plan[k].sparse
    /\ \E k \in 1..Len(fb.plan) :
          /\ fb.plan[k].op = "flash"
          /\ SizeOf(fb.plan[k].image) = 33554433
          /\ fb.plan[k].sparse

\* The manifest names a partition that partition_flash_attribute lacks.
NamesUnknownPartition(manifest) ==
    \E i \in 1..Len(manifest) : \E j \in 1..Len(manifest[i].storages) :
        \E k \in 1..Len(manifest[i].storages[j].part_info) :
            manifest[i].storages[j].part_info[k] \notin PartitionTable

\* C22: when the manifest names a partition that is not in the partition
\* table, the plan is rejected and no fastboot command is executed: no init,
\* no flash, no reboot.
C22_UnknownPartitionRejected ==
    (fb.has_manifest /\ NamesUnknownPartition(fb.manifest)) =>
        /\ fb.done = <<>>
        /\ fb.pc \in {"start", "plan", "done"}
        /\ fb.result # "true"

\* The commands of the whole upgrade, in order: the flash plan, then reboot.
WholePlan ==
    FlashCommands(fb.type, fb.has_manifest, fb.manifest) \o DeinitCommands(fb.type)

\* The number of commands that precede the command in hand.
Preceding ==
    IF fb.step = "flash" THEN fb.i - 1
    ELSE Len(FlashCommands(fb.type, fb.has_manifest, fb.manifest)) + fb.i - 1

\* C23: the command in hand has been run at most 3 times; while commands are
\* run, exactly the commands that precede the one in hand have succeeded, in
\* plan order; after a third failure the upgrade has ended with failure, and
\* the reboot was not executed.
C23_RetryThenAbort ==
    /\ fb.retry <= 3
    /\ fb.pc = "run" => /\ fb.retry < 3
                        /\ fb.done = SubSeq(WholePlan, 1, Preceding)
    /\ fb.retry = 3 => /\ fb.pc = "done"
                       /\ fb.result = "false"
                       /\ \A k \in 1..Len(fb.done) : fb.done[k].op # "reboot"
                       /\ fb.done = SubSeq(WholePlan, 1, Len(fb.done))

\* A flash command failed for the third time after earlier commands succeeded.
C23_Witness ==
    /\ fb.retry = 3
    /\ fb.result = "false"
    /\ \E k \in 1..Len(fb.done) : fb.done[k].op = "flash"
    /\ Len(fb.done) < Len(WholePlan) - 1

\* The claimed LTS pattern: "_V<major>.<minor>" right after the host name.
ClaimLts(f) == IsTargetJson(f) /\ VersionAt(f.rest, 1)

\* The (major, minor) pair of a file of the claimed LTS pattern.
ClaimVersion(f) ==
    << Number(f.rest, 3, DigitRun(f.rest, 3), 0),
       Number(f.rest, 4 + DigitRun(f.rest, 3),
              DigitRun(f.rest, 4 + DigitRun(f.rest, 3)), 0) >>

\* C24: when the directory holds manifests for the host, one of them is
\* selected: if some are LTS manifests, an LTS manifest whose (major, minor)
\* pair is numerically the highest; otherwise the first candidate of the
\* directory listing.
C24_ManifestSelection ==
    LET cands == { f \in fb.dir : IsTargetJson(f) }
        lts == { f \in cands : ClaimLts(f) }
    IN  (fb.selected.kind # "unset" /\ cands # {}) =>
            /\ fb.selected.kind = "file"
            /\ IF lts # {}
               THEN /\ fb.selected.file \in lts
                    /\ \A g \in lts :
                          ~KeyLess(ClaimVersion(fb.selected.file), ClaimVersion(g))
               ELSE fb.selected.file = fb.first[1]

\* C25: when the directory holds no manifest for the host, the upgrade does
\* not succeed and no fastboot command is executed, the reboot included.
C25_NoManifestFails ==
    fb.selected.kind = "none" =>
        /\ fb.done = <<>>
        /\ fb.result # "true"

\* C26: in 'latest' mode, when the size or the MD5 of the downloaded package
\* differs from the server's descriptor, the fetch fails, the downloaded file
\* is gone, and nothing is unzipped or flashed.
C26_MismatchPurges ==
    fb.fetch = "check failed" =>
        /\ fb.result = "false"
        /\ ~fb.downloaded
        /\ ~fb.extracted
        /\ fb.done = <<>>

\* C27: the download command is run at most 10 times per fetch; after a run
\* that failed the target file does not exist; after 10 failed runs the fetch
\* has failed and nothing is unzipped, flashed or sent.
C27_DownloadRetries ==
    /\ fb # [pc |-> "done"] =>
          /\ fb.tries <= 10
          /\ fb.pc = "wget" => (fb.tries < 10 /\ ~fb.downloaded)
          /\ fb.fetch = "download failed" =>
                /\ fb.tries = 10
                /\ ~fb.downloaded
                /\ ~fb.extracted
                /\ fb.done = <<>>
                /\ fb.result = "false"
    /\ ~BootIdle =>
          /\ boot.pkg_tries <= 10
          /\ boot.pc = "wget" => (boot.pkg_tries < 10 /\ ~boot.downloaded)
          /\ boot.fetch = "download failed" =>
                /\ boot.pkg_tries = 10
                /\ ~boot.downloaded
                /\ ~boot.extracted
                /\ boot.xfers = <<>>
                /\ boot.result = "false"

\* The tenth run of the download command has failed, in fastboot after a run
\* that left a partial file.
C27_Witness ==
    \/ /\ fb # [pc |-> "done"]
       /\ fb.result = "false" /\ fb.fetch = "download failed" /\ fb.tries = 10
    \/ /\ ~BootIdle
       /\ boot.result = "false" /\ boot.fetch = "download failed" /\ boot.pkg_tries = 10

\* C28: once an upgrade that was given a package has unzipped it, the
\* directory holds only files of that package: none left by an earlier upgrade.
C28_ScratchPurged ==
    fb.extracted => fb.dir \subseteq fb.pkg

\* What plan generation yields for a directory listing: the commands, or that
\* it raises.
Generated(listing) ==
    LET sel == SelectDataJson(listing) IN
    IF sel.kind = "raise" THEN <<"raised">>
    ELSE IF sel.kind = "none" THEN <<>>
    ELSE IF UnknownPartition(sel.file.images) THEN <<"raised">>
    ELSE FlashCommands(fb.type, TRUE, sel.file.images)

\* C30: the flash plan in hand is the plan every order of the directory
\* listing yields for the same files, host and transport.
C30_OrderIndependent ==
    (fb.pc = "run" /\ fb.step = "flash") =>
        \A l \in Listings(fb.dir) : Generated(l) = fb.plan

\* C29: a finished subcommand ends with exit status 0 if and only if its
\* operation succeeded: the relay command (-a on, off or reboot), also when
\* the lock could not be acquired, the fastboot upgrade and the UART boot.
C29_ExitStatus ==
    /\ \A w \in Workers :
          (pc[w] = "done" /\ action[w] \in {"on", "off", "reboot"}) =>
              (RebootExit(result[w]) = 0 <=> result[w] = "true")
    /\ (fb # [pc |-> "done"] /\ fb.pc = "done") =>
          (FastbootExit(fb.result) = 0 <=> fb.result = "true")
    /\ (~BootIdle /\ boot.pc = "done") =>
          (UartbootExit(boot.result) = 0 <=> boot.result = "true")


(***************************************************************************)
(* Properties of the tools as a whole                                      *)
(***************************************************************************)

\* C31: on every port the wait for 'C' before an image has ended with
\* success exactly when two consecutive 'C' characters or the text 'CCC'
\* have arrived on that port: while the wait goes on fewer than two have
\* arrived, and once it has ended with success at least two have.
C31_CPromptEnds ==
    ~BootIdle =>
        /\ boot.pc = "cwait" => boot.c_run < 2
        /\ boot.pc = "xmodem" => boot.c_run >= 2

\* C32: the UART boot fetches and unzips its package before it acts on the
\* device: when boot() turns to a package named by -u, to download or to
\* extract it, no mode-entry command has been sent after a power cycle of
\* the relay and no secure-debug unlock has been run.
C32_FetchBeforeDevice ==
    [][(boot.pc = "fetch" /\ boot'.link \in {"file", "url", "latest"}) =>
           (boot.mode_cmds = 0 /\ boot.script_runs = 0)]_vars

\* C33: under the manual strategy the wait for the operator reports success
\* exactly when 'CCC' was read from the MCU port before the read timeout:
\* what read_until returned is 'CCC' when the entry has succeeded by it, and
\* is not 'CCC' when the entry has failed.
C33_ManualEntry ==
    (~BootIdle /\ boot.uart_opt = "manual operation" /\ boot.check_for = "manual") =>
        /\ (boot.pc = "fetch" /\ boot.output # "") => boot.output = "CCC"
        /\ (boot.pc = "done" /\ boot.entry = "false") => boot.output # "CCC"

\* C34: in one UART-mode entry the mode-entry command (mcu_goto_uart, or
\* mcureboot/mcureset) is transmitted at most 8 times, whatever the strategy.
C34_ModeEntryBudget ==
    ~BootIdle => boot.mode_cmds <= 8

\* The flash commands of the plan in hand, in order.
PlanFlashes == SelectSeq(fb.plan, LAMBDA c : c.op = "flash")

C37_ResponsivenessCached ==
    (det # [pc |-> "done"] /\ Len(det.returns) >= 1) =>
        /\ det.pc = "idle"
        /\ Len(det.probes) = det.returns[1].probes
        /\ \A i \in 1..Len(det.returns) :
              /\ det.returns[i].value = det.returns[1].value
              /\ det.returns[i].probes = det.returns[1].probes

\* A second call has returned after a first one that probed twice and found
\* the MCU not responsive.
C37_Witness ==
    /\ det # [pc |-> "done"]
    /\ Len(det.returns) >= 2
    /\ det.returns[1].value = "false"
    /\ det.returns[1].probes = 2

\* C38: when the fastboot upgrade reports success, every image listed in the
\* manifest has had a flash command executed with success; an image on a
\* medium other than emmc, emmc_boot0, emmc_boot1 and nor is not passed over.
C38_EveryImageFlashed ==
    (fb # [pc |-> "done"] /\ fb.result = "true" /\ fb.has_manifest) =>
        \A i \in 1..Len(fb.manifest) :
            \E k \in 1..Len(fb.done) :
                fb.done[k].op = "flash" /\ fb.done[k].image = fb.manifest[i].name

\* The init block that selects a medium, as the fastboot commands name it.
SelectsMedium(t, medium) ==
    CASE medium = "emmc" ->
           << Oem(t, "interface:blk"), Oem(t, "bootdevice:mmc"),
              Oem(t, <<"mmc partconf", 0, 1, 1, 0>>) >>
      [] medium = "emmc_boot0" ->
           << Oem(t, "interface:blk"), Oem(t, "bootdevice:mmc"),
              Oem(t, <<"mmc partconf", 0, 1, 1, 1>>) >>
      [] medium = "emmc_boot1" ->
           << Oem(t, "interface:blk"), Oem(t, "bootdevice:mmc"),
              Oem(t, <<"mmc partconf", 0, 1, 1, 2>>) >>
      [] OTHER -> << Oem(t, "interface:mtd") >>

\* The position of the last init command before position k of the plan.
LastInitBefore(k) ==
    CHOOSE p \in 0..(k - 1) :
        /\ p > 0 => fb.plan[p].op = "oem"
        /\ \A q \in (p + 1)..(k - 1) : fb.plan[q].op # "oem"

\* C39: for every flash command of a generated plan, the init block most
\* recently before it selects a medium the flash targets: interface:blk,
\* bootdevice:mmc and mmc partconf with 0, 1 or 2 for emmc, emmc_boot0 or
\* emmc_boot1, interface:mtd for nor.
C39_InitSelectsMedium ==
    (FlashPlanInHand /\ fb.has_manifest) =>
        \A k \in 1..Len(fb.plan) :
            fb.plan[k].op = "flash" =>
                \E i \in 1..Len(PlanImages) :
                    /\ PlanImages[i].name = fb.plan[k].image
                    /\ \E j \in 1..Len(PlanImages[i].storages) :
                          LET st == PlanImages[i].storages[j]
                              block == SelectsMedium(fb.type, st.medium)
                              p == LastInitBefore(k)
                          IN  /\ st.medium \in {"emmc", "emmc_boot0", "emmc_boot1", "nor"}
                              /\ \/ \E n \in 1..Len(st.part_info) :
                                       st.part_info[n] = fb.plan[k].target
                                 \/ st.medium = "emmc_boot1" /\ fb.plan[k].target = "0"
                              /\ p >= Len(block)
                              /\ SubSeq(fb.plan, p - Len(block) + 1, p) = block

\* A plan in hand that flashes to emmc_boot1 and to nor.
C39_Witness ==
    /\ FlashPlanInHand
    /\ \E k \in 2..Len(fb.plan) :
          /\ fb.plan[k].op = "flash"
          /\ fb.plan[k].target = "0"
          /\ fb.plan[k - 1] = Oem(fb.type, <<"mmc partconf", 0, 1, 1, 2>>)
    /\ \E k \in 2..Len(fb.plan) :
          /\ fb.plan[k].op = "flash"
          /\ fb.plan[k - 1] = Oem(fb.type, "interface:mtd")

\* C40: once Relay_default.execute() has returned or raised, the calling
\* process does not hold the relay lock, whichever way the call ended: the
\* early return for a port already in the wanted state, a failed switch, an
\* exception during the status query or the switch.
C40_LockReleased ==
    relay_type = "default" =>
        \A w \in Workers : pc[w] \in {"idle", "done"} => relay_lock # w

\* A call that had acquired the lock ended with an exception after a failed
\* request, and the lock is free.
C40_Witness ==
    /\ relay_type = "default"
    /\ relay_lock = "free"
    /\ \E w \in Workers :
          /\ pc[w] = "done"
          /\ acquired[w] = "yes"
          /\ failed[w]
          /\ result[w] = "raised"

=============================================================================
